---- MODULE Spec2Model ----
(***************************************************************************)
(* The grading service (ai/services/grading_service.py) and the question   *)
(* generator (ai/services/question_generator.py) of the AI education       *)
(* backend, as state machines.                                             *)
(*                                                                         *)
(* Text is a sequence of one-character strings.  Points are fixed-point    *)
(* numbers in units of 1/Den of a point, so that the partial credits the   *)
(* code computes with floats are exact.  A percentage is kept as the exact *)
(* fraction num/den together with the one-decimal rounding the result      *)
(* reports.                                                                *)
(***************************************************************************)
EXTENDS Integers, Sequences, FiniteSets, TLC

VARIABLES
    gs,      \* GradingService fields: gemini_ready, use_free_tier, model_name
    grade,   \* the grade_submission / grade_submission_with_scheme call in progress
    qg,      \* QuestionGenerator fields: gemini_ready, use_free_tier, daily_requests, ...
    gen,     \* the QuestionGenerator call in progress, per caller
    today,   \* the wall-clock date, datetime.now().date(), as a day number
    probe    \* argument and result of a pure function applied on its own

vars == <<gs, grade, qg, gen, today, probe>>

-----------------------------------------------------------------------------
(* Bounds of the model *)

MaxQuestions == 2

\* One point is Den units: divisible by 2k for every keyword count k used,
\* and by 2 for half points and half weights.
Den == 2 * 3 * 4

-----------------------------------------------------------------------------
(* Text *)

Lowers == <<"a","b","c","d","e","f","g","h","i","j","k","l","m",
            "n","o","p","q","r","s","t","u","v","w","x","y","z">>
Uppers == <<"A","B","C","D","E","F","G","H","I","J","K","L","M",
            "N","O","P","Q","R","S","T","U","V","W","X","Y","Z">>

IsSpace(c) == c \in {" ", "\t", "\n"}

UpperChar(c) == IF \E i \in 1..26 : Lowers[i] = c
                THEN Uppers[CHOOSE i \in 1..26 : Lowers[i] = c] ELSE c
LowerChar(c) == IF \E i \in 1..26 : Uppers[i] = c
                THEN Lowers[CHOOSE i \in 1..26 : Uppers[i] = c] ELSE c

\* str.upper(), str.lower()
Upper(s) == [i \in 1..Len(s) |-> UpperChar(s[i])]
Lower(s) == [i \in 1..Len(s) |-> LowerChar(s[i])]

\* str.lstrip(), str.strip()
RECURSIVE LStrip(_)
LStrip(s) == IF s # <<>> /\ IsSpace(s[1]) THEN LStrip(Tail(s)) ELSE s
RECURSIVE RStrip(_)
RStrip(s) == IF s # <<>> /\ IsSpace(s[Len(s)])
             THEN RStrip(SubSeq(s, 1, Len(s) - 1)) ELSE s
Strip(s) == RStrip(LStrip(s))

\* `sub in s`
Contains(s, sub) ==
    \E i \in 1..(Len(s) - Len(sub) + 1) : SubSeq(s, i, i + Len(sub) - 1) = sub

\* s.startswith(p)
StartsWith(s, p) == Len(p) <= Len(s) /\ SubSeq(s, 1, Len(p)) = p

\* s.split(): the maximal runs of non-space characters
RECURSIVE SplitFrom(_, _)
SplitFrom(s, word) ==
    IF s = <<>> THEN (IF word = <<>> THEN <<>> ELSE <<word>>)
    ELSE IF IsSpace(s[1])
         THEN (IF word = <<>> THEN <<>> ELSE <<word>>) \o SplitFrom(Tail(s), <<>>)
         ELSE SplitFrom(Tail(s), Append(word, s[1]))
Split(s) == SplitFrom(s, <<>>)

\* re.sub(r'^[A-D][\)\.]?\s*', '', s)
StripLetterPrefix(s) ==
    IF s # <<>> /\ s[1] \in {"A", "B", "C", "D"}
    THEN LET r == Tail(s)
             t == IF r # <<>> /\ r[1] \in {")", "."} THEN Tail(r) ELSE r
         IN  LStrip(t)
    ELSE s

RECURSIVE SumSeq(_)
SumSeq(seq) == IF seq = <<>> THEN 0 ELSE seq[1] + SumSeq(Tail(seq))

Min(a, b) == IF b < a THEN b ELSE a
Max(a, b) == IF b > a THEN b ELSE a

-----------------------------------------------------------------------------
(* Values read from dict-shaped input: a key may be absent, hold a number, *)
(* or hold something that is not a number (a JSON string).                 *)

JAbsent == [kind |-> "absent", v |-> 0]
JNum(n) == [kind |-> "num", v |-> n]
JStr == [kind |-> "str", v |-> 0]

\* dict.get(key, default) of a numeric field
GetOr(field, default) == IF field.kind = "absent" THEN JNum(default) ELSE field

-----------------------------------------------------------------------------
(* The external model (Gemini).  A call either raises or returns a text,   *)
(* read line by line by _parse_grading_response.  A POINTS: line carries   *)
(* what float() makes of its text: a number (in units), nan, or a          *)
(* ValueError ("bad").  A FEEDBACK: line carries the length of its text.   *)

PointsLine(kind, v) == [tag |-> "POINTS", num |-> kind, v |-> v, len |-> 0]
FeedbackLine(n) == [tag |-> "FEEDBACK", num |-> "none", v |-> 0, len |-> n]
OtherLine == [tag |-> "other", num |-> "none", v |-> 0, len |-> 0]

ApiFailure == [ok |-> FALSE, lines |-> <<>>]
ApiText(lines) == [ok |-> TRUE, lines |-> lines]

\* GradingService.__init__: self.max_feedback_length
max_feedback_length == 500

-----------------------------------------------------------------------------
(* Grades *)

Feedback(kind, missing, len) == [kind |-> kind, missing |-> missing, len |-> len]
Say(kind) == Feedback(kind, <<>>, 0)

\* The dict every grading path returns.  grading_method is "unset" where the
\* code leaves the key out.
QuestionGrade(question, student_answer, points_possible, points_awarded, feedback, method) ==
    [question_id     |-> question.id,
     student_answer  |-> student_answer,
     points_possible |-> points_possible,
     points_awarded  |-> points_awarded,
     feedback        |-> feedback,
     grading_method  |-> method]

NoGrade == [question_id |-> "", student_answer |-> <<>>, points_possible |-> 0,
            points_awarded |-> 0, feedback |-> Say("none"), grading_method |-> "unset"]

\* What grading one question comes to: a grade or a raised exception, the
\* number of external calls issued, and the strategies entered, in order.
Returned(g, calls, trace) == [raised |-> FALSE, grade |-> g, calls |-> calls, trace |-> trace]
Raised(calls, trace) == [raised |-> TRUE, grade |-> NoGrade, calls |-> calls, trace |-> trace]

\* A strategy that entered `name`, issued `calls` calls and went on to `out`.
Then(name, calls, out) ==
    [out EXCEPT !.calls = @ + calls, !.trace = <<name>> \o @]

\* question.get('points', question.get('marks', 2)), in points
QuestionPoints(question) == GetOr(question.points, 2).v

-----------------------------------------------------------------------------
(* GradingService._parse_grading_response *)

\* max(0, min(points, max_points)) as Python evaluates it: min and max keep
\* their first argument unless the other compares smaller (larger), and
\* every comparison with nan is false.
ClampPoints(line, max_units) ==
    IF line.num = "nan" THEN 0
    ELSE Max(0, Min(line.v, max_units))

RECURSIVE ParseLines(_, _, _)
ParseLines(lines, max_units, acc) ==
    IF lines = <<>> THEN acc
    ELSE LET line == lines[1]
             next == IF line.tag = "POINTS"
                     THEN [acc EXCEPT !.points =
                              IF line.num = "bad" THEN 0 ELSE ClampPoints(line, max_units)]
                     ELSE IF line.tag = "FEEDBACK"
                     THEN [acc EXCEPT !.feedback =
                              Feedback("ai", <<>>,
                                  IF line.len > max_feedback_length
                                  THEN max_feedback_length + 3 ELSE line.len)]
                     ELSE acc
         IN  ParseLines(Tail(lines), max_units, next)

_parse_grading_response(lines, max_points) ==
    ParseLines(lines, max_points * Den,
               [points |-> 0, feedback |-> Say("No feedback provided")])

-----------------------------------------------------------------------------
(* GradingService._fallback_grading *)

_fallback_grading(question, student_answer, points_possible) ==
    IF ~question.correct_is_text
    THEN Raised(0, <<"fallback">>)      \* question.get('correct_answer', '').lower()
    ELSE
    LET correct_answer == Lower(question.correct_answer)
        student_answer_lower == Lower(student_answer)
        keywords == Split(correct_answer)
        matches == Len(SelectSeq(keywords, LAMBDA k : Contains(student_answer_lower, k)))
    IN  IF correct_answer # <<>> /\ Len(correct_answer) > 3 /\ matches > 0
        THEN Returned(QuestionGrade(question, student_answer, points_possible,
                          Min(points_possible * Den,
                              (matches * points_possible * Den) \div Len(keywords)),
                          Say("Partial credit awarded based on keyword matching"), "unset"),
                      0, <<"fallback">>)
        ELSE Returned(QuestionGrade(question, student_answer, points_possible, 0,
                          Say("Unable to grade automatically"), "unset"),
                      0, <<"fallback">>)

-----------------------------------------------------------------------------
(* GradingService._grade_open_ended: rs are the outcomes of the external   *)
(* calls still to come, in order.                                          *)

\* Variant: a failed call is tried once more before the local fallback.
_grade_open_ended_retry(question, student_answer, points_possible, rs) ==
    IF rs[1].ok
    THEN LET grading_result == _parse_grading_response(rs[1].lines, points_possible)
         IN  Returned(QuestionGrade(question, student_answer, points_possible,
                          grading_result.points, grading_result.feedback, "unset"),
                      1, <<"open_ended">>)
    ELSE Then("open_ended", 1,
              Then("open_ended", 1,
                   _fallback_grading(question, student_answer, points_possible)))

_grade_open_ended(question, student_answer, points_possible, rs) ==
    IF rs[1].ok
    THEN LET grading_result == _parse_grading_response(rs[1].lines, points_possible)
         IN  Returned(QuestionGrade(question, student_answer, points_possible,
                          grading_result.points, grading_result.feedback, "unset"),
                      1, <<"open_ended">>)
    ELSE Then("open_ended", 1,
              _fallback_grading(question, student_answer, points_possible))

-----------------------------------------------------------------------------
(* GradingService._grade_multiple_choice *)

_grade_multiple_choice(question, student_answer, points_possible) ==
    IF ~question.correct_is_text
    THEN Raised(0, <<"multiple_choice">>)   \* question.get('correct_answer', '').strip()
    ELSE
    LET correct_answer == Strip(question.correct_answer)
        student_answer_clean == Strip(student_answer)
        correct_normalized == Strip(StripLetterPrefix(Upper(correct_answer)))
        student_normalized == Strip(StripLetterPrefix(Upper(student_answer_clean)))
        is_correct ==
            \/ Upper(student_answer_clean) = Upper(correct_answer)
            \/ student_normalized = correct_normalized
            \/ StartsWith(Upper(student_answer_clean),
                          SubSeq(Upper(correct_answer), 1, Min(1, Len(correct_answer))))
    IN  Returned(QuestionGrade(question, student_answer, points_possible,
                     IF is_correct THEN points_possible * Den ELSE 0,
                     IF is_correct THEN Say("Correct!") ELSE Say("Incorrect"), "unset"),
                 0, <<"multiple_choice">>)

-----------------------------------------------------------------------------
(* GradingService._grade_individual_question *)

_grade_individual_question(question, student_answer, points_possible, rs) ==
    LET out == IF question.type = "multiple_choice"
               THEN _grade_multiple_choice(question, student_answer, points_possible)
               ELSE _grade_open_ended(question, student_answer, points_possible, rs)
    IN  IF out.raised
        THEN \* except Exception: a zero grade that carries the error
             Returned(QuestionGrade(question, student_answer, points_possible, 0,
                          Say("Grading error"), "unset"),
                      out.calls, out.trace)
        ELSE out

-----------------------------------------------------------------------------
(* Marking criteria.  A criterion carries question_id, grading_method (""  *)
(* when the key is absent), keywords, the partial_credit_rules fields      *)
(* min_keywords, keyword_weight (in halves) and case_sensitive, and        *)
(* whether it has a feedback_template.                                     *)

\* criteria.get('feedback_template', default)
TemplateOr(criteria, default) ==
    IF criteria.has_template THEN Say("template") ELSE default

\* Variant: the letter case always counts.
_grade_with_exact_match_cased(question, student_answer, points_possible, criteria) ==
    IF ~question.correct_is_text
    THEN Raised(0, <<"exact_match">>)
    ELSE
    LET is_correct == Strip(student_answer) = Strip(question.correct_answer)
    IN  Returned(QuestionGrade(question, student_answer, points_possible,
                     IF is_correct THEN points_possible * Den ELSE 0,
                     TemplateOr(criteria,
                         IF is_correct THEN Say("Correct answer.") ELSE Say("Incorrect")),
                     "exact_match"),
                 0, <<"exact_match">>)

(* GradingService._grade_with_exact_match *)
_grade_with_exact_match(question, student_answer, points_possible, criteria) ==
    IF ~question.correct_is_text
    THEN Raised(0, <<"exact_match">>)       \* correct_answer.strip()
    ELSE
    LET student_normalized == IF criteria.case_sensitive THEN Strip(student_answer)
                              ELSE Upper(Strip(student_answer))
        correct_normalized == IF criteria.case_sensitive THEN Strip(question.correct_answer)
                              ELSE Upper(Strip(question.correct_answer))
        exact == student_normalized = correct_normalized
        is_correct == IF ~exact /\ Len(correct_normalized) = 1 /\ Len(student_normalized) = 1
                      THEN student_normalized = correct_normalized
                      ELSE exact
    IN  Returned(QuestionGrade(question, student_answer, points_possible,
                     IF is_correct THEN points_possible * Den ELSE 0,
                     TemplateOr(criteria,
                         IF is_correct THEN Say("Correct answer.") ELSE Say("Incorrect")),
                     "exact_match"),
                 0, <<"exact_match">>)

\* Variant: the partial score leaves the weight out.
KeywordPartialScore_unweighted(matches, total, points_possible, keyword_weight) ==
    (matches * points_possible * Den) \div total

(* GradingService._grade_with_keyword_match *)
KeywordPartialScore(matches, total, points_possible, keyword_weight) ==
    \* (matches / len(keywords)) * points_possible * keyword_weight, in units
    (matches * points_possible * keyword_weight * Den) \div (total * 2)

_grade_with_keyword_match(question, student_answer, points_possible, criteria, rs) ==
    LET keywords == criteria.keywords
        min_keywords == GetOr(criteria.min_keywords, Max(1, Len(keywords) \div 2))
        keyword_weight == GetOr(criteria.keyword_weight, 2)
        student_answer_lower == Lower(student_answer)
        found(k) == Contains(student_answer_lower, Lower(k))
        matches == Len(SelectSeq(keywords, found))
        missing == SelectSeq(keywords, LAMBDA k : ~found(k))
        graded(points, feedback) ==
            Returned(QuestionGrade(question, student_answer, points_possible, points,
                         TemplateOr(criteria, feedback), "keyword_match"),
                     0, <<"keyword_match">>)
    IN  IF keywords = <<>>
        THEN Then("keyword_match", 0,
                  _grade_open_ended(question, student_answer, points_possible, rs))
        ELSE IF matches >= Len(keywords)
        THEN graded(points_possible * Den, Say("Excellent answer"))
        ELSE IF min_keywords.kind = "str"
        THEN Raised(0, <<"keyword_match">>)     \* int >= str
        ELSE IF matches >= min_keywords.v
        THEN IF keyword_weight.kind = "str"
             THEN Raised(0, <<"keyword_match">>)    \* float * str
             ELSE graded(Min(points_possible * Den,
                             KeywordPartialScore(matches, Len(keywords), points_possible,
                                                 keyword_weight.v)),
                         Feedback("Good answer, consider including", missing, 0))
        ELSE graded(0, Feedback("Answer missing key points, consider including", keywords, 0))

(* GradingService._grade_with_ai_enhanced *)
_grade_with_ai_enhanced(question, student_answer, points_possible, criteria, rs) ==
    IF ~gs.gemini_ready
    THEN Then("ai_enhanced", 0,
              _grade_with_keyword_match(question, student_answer, points_possible, criteria, rs))
    ELSE IF rs[1].ok
    THEN LET grading_result == _parse_grading_response(rs[1].lines, points_possible)
         IN  Returned(QuestionGrade(question, student_answer, points_possible,
                          grading_result.points, grading_result.feedback, "ai_enhanced"),
                      1, <<"ai_enhanced">>)
    ELSE Then("ai_enhanced", 1,
              _grade_with_keyword_match(question, student_answer, points_possible, criteria,
                                        Tail(rs)))

(* GradingService._grade_individual_question_with_scheme *)
\* the first criterion of the scheme whose question_id is the question's
FindCriteria(criteria_list, question_id) ==
    SelectSeq(criteria_list, LAMBDA c : c.question_id = question_id)

_grade_individual_question_with_scheme(question, student_answer, points_possible, marking_scheme, rs) ==
    LET found == FindCriteria(marking_scheme.criteria, question.id)
    IN  IF found = <<>>
        THEN Then("no_criteria", 0,
                  _grade_open_ended(question, student_answer, points_possible, rs))
        ELSE LET marking_criteria == found[1]
                 grading_method == IF marking_criteria.grading_method = ""
                                   THEN "keyword_match"
                                   ELSE marking_criteria.grading_method
             IN  IF grading_method = "exact_match"
                 THEN _grade_with_exact_match(question, student_answer, points_possible,
                                              marking_criteria)
                 ELSE IF grading_method = "keyword_match"
                 THEN _grade_with_keyword_match(question, student_answer, points_possible,
                                                marking_criteria, rs)
                 ELSE _grade_with_ai_enhanced(question, student_answer, points_possible,
                                              marking_criteria, rs)

-----------------------------------------------------------------------------
(* GradingService._calculate_letter_grade, of the percentage num/den       *)
(* (den > 0): percentage >= t is num >= t * den.                           *)

\* Variants: 93 itself below "A"; "D" reaching down to 60.
_calculate_letter_grade_strict(num, den) ==
    IF num >= 97 * den THEN "A+"
    ELSE IF num > 93 * den THEN "A"
    ELSE IF num >= 90 * den THEN "A-"
    ELSE IF num >= 87 * den THEN "B+"
    ELSE IF num >= 83 * den THEN "B"
    ELSE IF num >= 80 * den THEN "B-"
    ELSE IF num >= 77 * den THEN "C+"
    ELSE IF num >= 73 * den THEN "C"
    ELSE IF num >= 70 * den THEN "C-"
    ELSE IF num >= 67 * den THEN "D+"
    ELSE IF num >= 65 * den THEN "D"
    ELSE "F"

_calculate_letter_grade_sixty(num, den) ==
    IF num >= 97 * den THEN "A+"
    ELSE IF num >= 93 * den THEN "A"
    ELSE IF num >= 90 * den THEN "A-"
    ELSE IF num >= 87 * den THEN "B+"
    ELSE IF num >= 83 * den THEN "B"
    ELSE IF num >= 80 * den THEN "B-"
    ELSE IF num >= 77 * den THEN "C+"
    ELSE IF num >= 73 * den THEN "C"
    ELSE IF num >= 70 * den THEN "C-"
    ELSE IF num >= 67 * den THEN "D+"
    ELSE IF num >= 60 * den THEN "D"
    ELSE "F"

_calculate_letter_grade(num, den) ==
    IF num >= 97 * den THEN "A+"
    ELSE IF num >= 93 * den THEN "A"
    ELSE IF num >= 90 * den THEN "A-"
    ELSE IF num >= 87 * den THEN "B+"
    ELSE IF num >= 83 * den THEN "B"
    ELSE IF num >= 80 * den THEN "B-"
    ELSE IF num >= 77 * den THEN "C+"
    ELSE IF num >= 73 * den THEN "C"
    ELSE IF num >= 70 * den THEN "C-"
    ELSE IF num >= 67 * den THEN "D+"
    ELSE IF num >= 65 * den THEN "D"
    ELSE "F"

\* round(percentage, 1), in tenths of a percent.  Where num/den lies exactly
\* halfway between two tenths, the float the code rounds is the nearest
\* double to it and may fall on either side: both tenths are possible.
RoundTenths(num, den) ==
    LET lo == (num * 10) \div den
        twice == 2 * (num * 10 - lo * den)
    IN  IF twice < den THEN {lo}
        ELSE IF twice > den THEN {lo + 1}
        ELSE {lo, lo + 1}

-----------------------------------------------------------------------------
(* GradingService: construction *)

\* __init__ and _initialize_gemini.  api_key records whether GEMINI_API_KEY
\* is set.  Without it nothing but gemini_ready is assigned; if
\* genai.GenerativeModel raises, model_name is assigned and use_free_tier is
\* not.
ServiceAfterInit(api_key, configure_raises, free_tier_env) ==
    IF ~api_key
    THEN [api_key |-> FALSE, gemini_ready |-> FALSE, model_name |-> "unset",
          use_free_tier |-> "unset"]
    ELSE IF configure_raises
    THEN [api_key |-> TRUE, gemini_ready |-> FALSE, model_name |-> "set",
          use_free_tier |-> "unset"]
    ELSE [api_key |-> TRUE, gemini_ready |-> TRUE, model_name |-> "set",
          use_free_tier |-> IF free_tier_env THEN "true" ELSE "false"]

-----------------------------------------------------------------------------
(* GradingService.grade_submission and grade_submission_with_scheme        *)

NoScheme == [present |-> FALSE, total_points |-> JAbsent, criteria |-> <<>>]

NoResult == [success |-> FALSE, raised |-> FALSE, error |-> "", total_score |-> 0, max_possible_score |-> 0,
             percentage |-> 0, grade |-> "", detailed_feedback |-> <<>>,
             overall_feedback |-> "", marking_scheme_used |-> FALSE]

FailureResult(error) == [NoResult EXCEPT !.error = error]

IdleGrade == [pc |-> "idle", op |-> "", questions |-> <<>>, student_answers |-> <<>>,
              marking_scheme |-> NoScheme, i |-> 0, question_grades |-> <<>>,
              total_score |-> 0, max_possible_score |-> 0, steps |-> <<>>,
              result |-> NoResult]

\* Variant: a question without an answer of its own takes the first answer
\* of the list.
AnswerOf_first(student_answers, question_id) ==
    LET given == SelectSeq(student_answers, LAMBDA a : a.question_id = question_id)
    IN  IF given # <<>> THEN given[Len(given)].answer
        ELSE IF student_answers # <<>> THEN student_answers[1].answer
        ELSE <<>>

\* answer_map.get(question_id, {}).get('answer', ''): the dict comprehension
\* keeps the last answer given for an identifier.
AnswerOf(student_answers, question_id) ==
    LET given == SelectSeq(student_answers, LAMBDA a : a.question_id = question_id)
    IN  IF given = <<>> THEN <<>> ELSE given[Len(given)].answer

HasAnswer(student_answers, question_id) ==
    \E k \in 1..Len(student_answers) : student_answers[k].question_id = question_id

\* The entry of a call: the readiness and input checks, up to the loop.
\* grade_submission_with_scheme hands a submission without a marking scheme
\* to grade_submission.
GradeBegin(Submissions) ==
    /\ grade.pc = "idle"
    /\ \E op \in {"grade_submission", "grade_submission_with_scheme"}, sd \in Submissions :
         LET call == [IdleGrade EXCEPT !.op = op,
                                       !.questions = sd.questions,
                                       !.student_answers = sd.student_answers,
                                       !.marking_scheme = sd.marking_scheme]
             with_scheme == op = "grade_submission_with_scheme" /\ sd.marking_scheme.present
         IN  grade' =
               IF ~gs.gemini_ready
               THEN [call EXCEPT !.pc = "done",
                                 !.result = FailureResult("Auto-grading not available")]
               ELSE IF sd.questions = <<>> \/ sd.student_answers = <<>>
               THEN [call EXCEPT !.pc = "done",
                                 !.result = FailureResult("Missing questions or student answers")]
               ELSE [call EXCEPT !.pc = "loop", !.i = 1,
                                 !.marking_scheme = IF with_scheme THEN @ ELSE NoScheme,
                                 !.max_possible_score =
                                     IF with_scheme THEN GetOr(sd.marking_scheme.total_points, 0).v
                                     ELSE 0]
    /\ UNCHANGED <<gs, qg, gen, today, probe>>

\* The grade of a question left unanswered (lines 99-112 and 227-240).
NoAnswerGrade(question, question_points) ==
    QuestionGrade(question, <<>>, question_points, 0, Say("No answer provided"), "unset")

\* Variant: a blank answer is graded like any other.
GradeOne_graded_blank(call, rs) ==
    LET question == call.questions[call.i]
        student_answer ==
            LET given == SelectSeq(call.student_answers, LAMBDA a : a.question_id = question.id)
            IN  IF given = <<>> THEN <<>> ELSE given[Len(given)].answer
        question_points == QuestionPoints(question)
    IN  IF call.marking_scheme.present
        THEN _grade_individual_question_with_scheme(question, student_answer, question_points, call.marking_scheme, rs)
        ELSE _grade_individual_question(question, student_answer, question_points, rs)

\* Grading the question at hand, with the external outcomes rs.
GradeOne(call, rs) ==
    LET question == call.questions[call.i]
        student_answer == AnswerOf(call.student_answers, question.id)
        question_points == QuestionPoints(question)
    IN  IF Strip(student_answer) = <<>>
        THEN Returned(NoAnswerGrade(question, question_points), 0, <<>>)
        ELSE IF call.marking_scheme.present
        THEN _grade_individual_question_with_scheme(question, student_answer, question_points, call.marking_scheme, rs)
        ELSE _grade_individual_question(question, student_answer, question_points, rs)

\* Variant: the questions' points are added to the maximum with a marking
\* scheme too.
LoopStep_counts_always(call, out) ==
    LET question == call.questions[call.i]
        step == [calls |-> out.calls, trace |-> out.trace, raised |-> out.raised]
        counted == [call EXCEPT !.max_possible_score = @ + QuestionPoints(question)]
    IN  IF out.raised
        THEN [counted EXCEPT !.pc = "done", !.steps = Append(@, step),
                            !.result = [success |-> FALSE, raised |-> FALSE,
                                        error |-> "Grading failed", total_score |-> 0,
                                        max_possible_score |-> 0, percentage |-> 0,
                                        grade |-> "", detailed_feedback |-> <<>>,
                                        overall_feedback |-> "",
                                        marking_scheme_used |-> FALSE]]
        ELSE [counted EXCEPT !.i = @ + 1, !.steps = Append(@, step),
                            !.question_grades = Append(@, out.grade),
                            !.total_score = @ + out.grade.points_awarded]

\* Variant: the newest grade is put in front of the earlier ones.
LoopStep_newest_first(call, out) ==
    LET question == call.questions[call.i]
        step == [calls |-> out.calls, trace |-> out.trace, raised |-> out.raised]
        counted == IF call.marking_scheme.present THEN call
                   ELSE [call EXCEPT !.max_possible_score = @ + QuestionPoints(question)]
    IN  IF out.raised
        THEN [counted EXCEPT !.pc = "done", !.steps = Append(@, step),
                            !.result = FailureResult(
                                IF call.marking_scheme.present
                                THEN "Marking scheme grading failed" ELSE "Grading failed")]
        ELSE [counted EXCEPT !.i = @ + 1, !.steps = Append(@, step),
                            !.question_grades = <<out.grade>> \o @,
                            !.total_score = @ + out.grade.points_awarded]

\* One iteration of the loop over the questions.  An exception that leaves
\* the per-question grader ends the call in the handler of the outer try.
LoopStep(call, out) ==
    LET question == call.questions[call.i]
        step == [calls |-> out.calls, trace |-> out.trace, raised |-> out.raised]
        counted == IF call.marking_scheme.present THEN call
                   ELSE [call EXCEPT !.max_possible_score = @ + QuestionPoints(question)]
    IN  IF out.raised
        THEN [counted EXCEPT !.pc = "done", !.steps = Append(@, step),
                            !.result = FailureResult(
                                IF call.marking_scheme.present
                                THEN "Marking scheme grading failed" ELSE "Grading failed")]
        ELSE [counted EXCEPT !.i = @ + 1, !.steps = Append(@, step),
                            !.question_grades = Append(@, out.grade),
                            !.total_score = @ + out.grade.points_awarded]

GradeQuestion(ApiOutcomes) ==
    /\ grade.pc = "loop"
    /\ grade.i <= Len(grade.questions)
    /\ \E r1 \in ApiOutcomes :
         LET first == GradeOne(grade, <<r1, r1>>)
         IN  \E r2 \in (IF first.calls > 1 THEN ApiOutcomes ELSE {r1}) :
               grade' = LoopStep(grade, GradeOne(grade, <<r1, r2>>))
    /\ UNCHANGED <<gs, qg, gen, today, probe>>

\* After the loop: the statistics, the overall feedback (one external call,
\* whose failure only changes the text) and the result.
Aggregate(call, tenths, overall_ok) ==
    LET num == call.total_score * 100
        den == call.max_possible_score * Den
    IN  [call EXCEPT !.pc = "done",
           !.result = [success |-> TRUE, raised |-> FALSE, error |-> "",
                       total_score |-> call.total_score,
                       max_possible_score |-> call.max_possible_score,
                       percentage |-> tenths,
                       grade |-> IF call.max_possible_score > 0
                                 THEN _calculate_letter_grade(num, den)
                                 ELSE _calculate_letter_grade(0, 1),
                       detailed_feedback |-> call.question_grades,
                       overall_feedback |-> IF overall_ok THEN "summary" ELSE "score",
                       marking_scheme_used |-> call.marking_scheme.present]]

PercentageTenths(call) ==
    IF call.max_possible_score > 0
    THEN RoundTenths(call.total_score * 100, call.max_possible_score * Den)
    ELSE {0}

GradeFinish ==
    /\ grade.pc = "loop"
    /\ grade.i > Len(grade.questions)
    /\ \E tenths \in PercentageTenths(grade), overall_ok \in BOOLEAN :
         grade' = Aggregate(grade, tenths, overall_ok)
    /\ UNCHANGED <<gs, qg, gen, today, probe>>

\* GradingService.provide_feedback: one external call, no await that
\* suspends
ProvideFeedback ==
    /\ grade.pc = "idle"
    /\ \E call_ok \in BOOLEAN :
         grade' = [IdleGrade EXCEPT !.pc = "done", !.op = "provide_feedback",
                     !.result = IF ~gs.gemini_ready
                                THEN FailureResult("Feedback generation not available")
                                ELSE IF call_ok
                                THEN [NoResult EXCEPT !.success = TRUE]
                                ELSE FailureResult("Feedback generation failed")]
    /\ UNCHANGED <<gs, qg, gen, today, probe>>

\* GradingService.get_grading_stats: model_name and use_free_tier are read
\* only if gemini_ready
GetGradingStats ==
    /\ grade.pc = "idle"
    /\ grade' = [IdleGrade EXCEPT !.pc = "done", !.op = "get_grading_stats",
                   !.result = [NoResult EXCEPT
                       !.success = TRUE,
                       !.raised = gs.gemini_ready /\ (gs.model_name = "unset"
                                                      \/ gs.use_free_tier = "unset")]]
    /\ UNCHANGED <<gs, qg, gen, today, probe>>

\* The caller takes the result; the service is ready for the next call.
GradeReturn ==
    /\ grade.pc = "done"
    /\ grade' = IdleGrade
    /\ UNCHANGED <<gs, qg, gen, today, probe>>

-----------------------------------------------------------------------------
(* QuestionGenerator: the helpers of marking-scheme synthesis.  A question *)
(* is the record the grader reads; id and type are "" when the key is      *)
(* absent.                                                                 *)

\* f'q{i+1}', and the identifiers the inputs use
QIds == <<"q1", "q2", "q3", "q4">>

\* sum(q.get('points', 2) for q in questions)
SumOfPoints(questions) == SumSeq([i \in 1..Len(questions) |-> QuestionPoints(questions[i])])

IsWordChar(c) == (\E i \in 1..26 : Lowers[i] = c \/ Uppers[i] = c)
                 \/ c \in {"0","1","2","3","4","5","6","7","8","9","_"}

\* re.findall(r'\b\w+\b', text): the maximal runs of word characters
RECURSIVE WordsFrom(_, _)
WordsFrom(s, word) ==
    IF s = <<>> THEN (IF word = <<>> THEN <<>> ELSE <<word>>)
    ELSE IF ~IsWordChar(s[1])
         THEN (IF word = <<>> THEN <<>> ELSE <<word>>) \o WordsFrom(Tail(s), <<>>)
         ELSE WordsFrom(Tail(s), Append(word, s[1]))

\* the stop words of _extract_keywords longer than two characters (shorter
\* words are dropped by length)
common_words == {
    <<"t","h","e">>, <<"a","n","d">>, <<"b","u","t">>, <<"f","o","r">>,
    <<"w","i","t","h">>, <<"a","r","e">>, <<"w","a","s">>, <<"w","e","r","e">>,
    <<"b","e","e","n">>, <<"b","e","i","n","g">>, <<"h","a","v","e">>,
    <<"h","a","s">>, <<"h","a","d">>, <<"d","o","e","s">>, <<"d","i","d">>,
    <<"w","i","l","l">>, <<"w","o","u","l","d">>, <<"c","o","u","l","d">>,
    <<"s","h","o","u","l","d">>, <<"m","a","y">>, <<"m","i","g","h","t">>,
    <<"c","a","n">>, <<"t","h","i","s">>, <<"t","h","a","t">>,
    <<"t","h","e","s","e">>, <<"t","h","o","s","e">>}

RECURSIVE Dedup(_, _)
Dedup(seq, seen) ==
    IF seq = <<>> THEN <<>>
    ELSE IF seq[1] \in seen THEN Dedup(Tail(seq), seen)
    ELSE <<seq[1]>> \o Dedup(Tail(seq), seen \cup {seq[1]})

\* QuestionGenerator._extract_keywords: list(set(keywords))[:10].  The order
\* of a Python set is unspecified; the list here is in first-seen order and
\* stands for any order of the same words.
_extract_keywords(text) ==
    LET words == WordsFrom(Lower(text), <<>>)
        keywords == SelectSeq(words, LAMBDA w : w \notin common_words /\ Len(w) > 2)
        unique == Dedup(keywords, {})
    IN  SubSeq(unique, 1, Min(10, Len(unique)))

\* question.get('type', 'multiple_choice')
TypeOr(question) == IF question.type = "" THEN "multiple_choice" ELSE question.type

\* question.get('id', f'q{i+1}'), i counted from 1 here
IdOr(question, i) == IF question.id = "" THEN QIds[i] ELSE question.id

\* QuestionGenerator._determine_grading_method
\* Variant: a short answer is matched exactly up to two words only.
_determine_grading_method_two(question) ==
    LET question_type == TypeOr(question)
    IN  IF question_type = "multiple_choice" THEN "exact_match"
        ELSE IF question_type = "short_answer"
        THEN (IF Len(Split(question.correct_answer)) <= 2
              THEN "exact_match" ELSE "keyword_match")
        ELSE "keyword_match"

_determine_grading_method(question) ==
    LET question_type == TypeOr(question)
    IN  IF question_type = "multiple_choice" THEN "exact_match"
        ELSE IF question_type = "short_answer"
        THEN (IF Len(Split(question.correct_answer)) <= 3
              THEN "exact_match" ELSE "keyword_match")
        ELSE "keyword_match"

\* QuestionGenerator._create_default_criteria, and the criteria that
\* _generate_basic_marking_scheme builds field by field the same way
_create_default_criteria(question, question_number) ==
    [question_id     |-> IdOr(question, question_number),
     question_number |-> question_number,
     type            |-> TypeOr(question),
     points          |-> QuestionPoints(question),
     grading_method  |-> _determine_grading_method(question),
     keywords        |-> _extract_keywords(question.correct_answer),
     min_keywords    |-> JNum(Max(1, Len(_extract_keywords(question.correct_answer)) \div 2)),
     keyword_weight  |-> JNum(2),
     case_sensitive  |-> FALSE,
     has_template    |-> TRUE,
     from_ai         |-> FALSE]

\* Variant: five minutes for every question that is no multiple_choice one.
TotalTime_five(questions) ==
    SumSeq([i \in 1..Len(questions) |->
        IF questions[i].type = "multiple_choice" THEN 2 ELSE 5])

\* the time estimate of _combine_marking_schemes and
\* _generate_basic_marking_scheme, which read q.get('type') with no default
TotalTime(questions) ==
    SumSeq([i \in 1..Len(questions) |->
        IF questions[i].type = "multiple_choice" THEN 2
        ELSE IF questions[i].type = "short_answer" THEN 5 ELSE 3])

CountType(questions, type) == Len(SelectSeq(questions, LAMBDA q : q.type = type))

Breakdown(questions) ==
    [multiple_choice |-> CountType(questions, "multiple_choice"),
     short_answer    |-> CountType(questions, "short_answer"),
     essay           |-> CountType(questions, "essay")]

\* QuestionGenerator._generate_basic_marking_scheme
_generate_basic_marking_scheme(questions) ==
    [total_points       |-> JNum(SumOfPoints(questions)),
     total_questions    |-> JNum(Len(questions)),
     time_limit_minutes |-> JNum(TotalTime(questions)),
     question_breakdown |-> Breakdown(questions),
     criteria           |-> [i \in 1..Len(questions) |->
                                _create_default_criteria(questions[i], i)],
     ai_generated       |-> "false"]

-----------------------------------------------------------------------------
(* QuestionGenerator: the marking scheme parsed from the external model.   *)
(* The response holds no JSON object, one json.loads rejects, or an object *)
(* ai_scheme.  Its criteria key is absent, a list, or not a list; an entry *)
(* of the list is a dict (is_dict) or something else.                      *)

NoSchemeDict == [empty |-> TRUE, total_points |-> JAbsent, total_questions |-> JAbsent,
                 time_limit_minutes |-> JAbsent,
                 question_breakdown |-> [multiple_choice |-> 0, short_answer |-> 0, essay |-> 0],
                 criteria |-> <<>>, ai_generated |-> "absent"]

SchemeDict(fields) == [empty |-> FALSE] @@ fields

\* the first entry the loop of lines 472-475 stops at: a match, or an entry
\* whose .get raises because it is no dict
RECURSIVE FindAiCriteria(_, _, _)
FindAiCriteria(entries, question_id, number) ==
    IF entries = <<>> THEN [raised |-> FALSE, found |-> FALSE, at |-> 0]
    ELSE IF ~entries[1].is_dict THEN [raised |-> TRUE, found |-> FALSE, at |-> 0]
    ELSE IF entries[1].question_id = question_id
            \/ entries[1].question_number = JNum(number)
    THEN [raised |-> FALSE, found |-> TRUE, at |-> 1]
    ELSE LET later == FindAiCriteria(Tail(entries), question_id, number)
         IN  [later EXCEPT !.at = IF later.found THEN @ + 1 ELSE 0]

\* Variant: the cleaned criterion keeps the identifier the external model
\* wrote.
CleanedCriteria_model_id(question, number, ai_criteria) ==
    [question_id     |-> ai_criteria.question_id,
     question_number |-> number,
     type            |-> TypeOr(question),
     points          |-> QuestionPoints(question),
     grading_method  |-> IF ai_criteria.grading_method = "" THEN "keyword_match"
                         ELSE ai_criteria.grading_method,
     keywords        |-> IF ai_criteria.has_keywords THEN ai_criteria.keywords
                         ELSE _extract_keywords(question.correct_answer),
     min_keywords    |-> GetOr(ai_criteria.min_keywords,
                               Max(1, (IF ai_criteria.has_keywords
                                       THEN Len(ai_criteria.keywords) ELSE 0) \div 2)),
     keyword_weight  |-> GetOr(ai_criteria.keyword_weight, 2),
     case_sensitive  |-> ai_criteria.case_sensitive,
     has_template    |-> TRUE,
     from_ai         |-> TRUE]

\* the cleaned criterion of lines 479-497
CleanedCriteria(question, number, ai_criteria) ==
    [question_id     |-> IdOr(question, number),
     question_number |-> number,
     type            |-> TypeOr(question),
     points          |-> QuestionPoints(question),
     grading_method  |-> IF ai_criteria.grading_method = "" THEN "keyword_match"
                         ELSE ai_criteria.grading_method,
     keywords        |-> IF ai_criteria.has_keywords THEN ai_criteria.keywords
                         ELSE _extract_keywords(question.correct_answer),
     min_keywords    |-> GetOr(ai_criteria.min_keywords,
                               Max(1, (IF ai_criteria.has_keywords
                                       THEN Len(ai_criteria.keywords) ELSE 0) \div 2)),
     keyword_weight  |-> GetOr(ai_criteria.keyword_weight, 2),
     case_sensitive  |-> ai_criteria.case_sensitive,
     has_template    |-> TRUE,
     from_ai         |-> TRUE]

\* QuestionGenerator._validate_and_clean_ai_scheme: the cleaned scheme, or
\* raised when iterating the criteria or reading an entry raises
_validate_and_clean_ai_scheme(ai_scheme, questions) ==
    LET entries == IF ai_scheme.criteria_kind = "list" THEN ai_scheme.criteria ELSE <<>>
        look(i) == FindAiCriteria(entries, IdOr(questions[i], i), i)
        cleaned_criteria ==
            [i \in 1..Len(questions) |->
                IF look(i).found
                THEN CleanedCriteria(questions[i], i, entries[look(i).at])
                ELSE _create_default_criteria(questions[i], i)]
    IN  IF ai_scheme.criteria_kind = "not_list"
           \/ \E i \in 1..Len(questions) : look(i).raised
        THEN [raised |-> TRUE, scheme |-> NoSchemeDict]
        ELSE [raised |-> FALSE,
              scheme |-> SchemeDict(
                  [total_points       |-> GetOr(ai_scheme.total_points, SumOfPoints(questions)),
                   total_questions    |-> GetOr(ai_scheme.total_questions, Len(questions)),
                   time_limit_minutes |-> ai_scheme.time_limit_minutes,
                   question_breakdown |-> ai_scheme.question_breakdown,
                   has_breakdown      |-> ai_scheme.has_breakdown,
                   criteria           |-> cleaned_criteria,
                   ai_generated       |-> ai_scheme.ai_generated])]

\* QuestionGenerator._parse_marking_scheme_response
_parse_marking_scheme_response(response, questions) ==
    IF response.json # "object" THEN [raised |-> TRUE, scheme |-> NoSchemeDict]
    ELSE _validate_and_clean_ai_scheme(response.ai_scheme, questions)

\* QuestionGenerator._combine_marking_schemes
_combine_marking_schemes(ai_scheme, questions) ==
    [empty              |-> FALSE,
     total_points       |-> ai_scheme.total_points,
     total_questions    |-> ai_scheme.total_questions,
     time_limit_minutes |-> GetOr(ai_scheme.time_limit_minutes, TotalTime(questions)),
     question_breakdown |-> IF ai_scheme.has_breakdown THEN ai_scheme.question_breakdown
                            ELSE Breakdown(questions),
     criteria           |-> ai_scheme.criteria,
     ai_generated       |-> ai_scheme.ai_generated]

\* What create_marking_scheme returns: {"success": ..., "scheme": ...}
SchemeResult(success, scheme) == [success |-> success, scheme |-> scheme]

\* Variant: the text of the response is cleaned whether or not it parsed.
SchemeAfterCall_unparsed(questions, response) ==
    LET parsed == _validate_and_clean_ai_scheme(response.ai_scheme, questions)
    IN  IF ~response.ok \/ parsed.raised
        THEN SchemeResult(TRUE, SchemeDict(_generate_basic_marking_scheme(questions)))
        ELSE SchemeResult(TRUE, _combine_marking_schemes(parsed.scheme, questions))

\* create_marking_scheme once the external call has come back (lines 334-356)
SchemeAfterCall(questions, response) ==
    LET parsed == _parse_marking_scheme_response(response, questions)
    IN  IF ~response.ok \/ parsed.raised
        THEN SchemeResult(TRUE, SchemeDict(_generate_basic_marking_scheme(questions)))
        ELSE SchemeResult(TRUE, _combine_marking_schemes(parsed.scheme, questions))

-----------------------------------------------------------------------------
(* QuestionGenerator: construction and the public operations.  A caller is *)
(* one coroutine; it is suspended where the code awaits _call_gemini_api.  *)

Callers == {"a", "b"}

\* __init__: _initialize_gemini, then the usage counters
GeneratorAfterInit(api_key, configure_raises, free_tier_env, max_daily, day) ==
    ServiceAfterInit(api_key, configure_raises, free_tier_env) @@
    [daily_requests |-> 0, max_daily_requests |-> max_daily, last_reset |-> day]

\* Variant: the date is brought up to date and the counter is kept.
_reset_daily_counter_if_needed_kept(generator, day) ==
    IF day > generator.last_reset
    THEN [generator EXCEPT !.last_reset = day]
    ELSE generator

\* Variant: the counter is reset on the day of the last reset too.
_reset_daily_counter_if_needed_same_day(generator, day) ==
    IF day >= generator.last_reset
    THEN [generator EXCEPT !.daily_requests = 0, !.last_reset = day]
    ELSE generator

\* QuestionGenerator._reset_daily_counter_if_needed
_reset_daily_counter_if_needed(generator, day) ==
    IF day > generator.last_reset
    THEN [generator EXCEPT !.daily_requests = 0, !.last_reset = day]
    ELSE generator

NoGenResult == [success |-> FALSE, raised |-> FALSE, error |-> "", questions |-> <<>>,
                marking_scheme |-> SchemeResult(FALSE, NoSchemeDict),
                daily_requests |-> 0, requests_remaining |-> 0]

\* response: what the external model answered to the marking-scheme prompt of
\* this call, once it has
IdleCall == [pc |-> "idle", op |-> "", questions |-> <<>>, response |-> <<>>,
             result |-> NoGenResult]
OffCall == [IdleCall EXCEPT !.pc = "off"]

Finished(call, result) == [call EXCEPT !.pc = "done", !.result = result]

\* generate_question_paper up to its first await (lines 135-165)
GenerateBegin(c) ==
    /\ gen[c].pc = "idle"
    /\ LET call == [IdleCall EXCEPT !.op = "generate_question_paper"]
           generator == _reset_daily_counter_if_needed(qg, today)
       IN  IF ~qg.gemini_ready
           THEN /\ gen' = [gen EXCEPT ![c] =
                          Finished(call, [NoGenResult EXCEPT !.error = "Gemini API not configured"])]
                /\ qg' = qg
           ELSE IF generator.use_free_tier = "true"
                   /\ generator.daily_requests >= generator.max_daily_requests
           THEN /\ gen' = [gen EXCEPT ![c] =
                          Finished(call, [NoGenResult EXCEPT
                                             !.error = "Daily free tier limit reached",
                                             !.daily_requests = generator.daily_requests])]
                /\ qg' = generator
           ELSE /\ gen' = [gen EXCEPT ![c] = [call EXCEPT !.pc = "generate_api"]]
                /\ qg' = generator
    /\ UNCHANGED <<gs, grade, today, probe>>

\* create_marking_scheme up to its await (lines 314-335)
SchemeEntry(call, generator, questions) ==
    IF questions = <<>>
    THEN [pc |-> "done", scheme |-> SchemeResult(FALSE, NoSchemeDict)]
    ELSE IF ~generator.gemini_ready
    THEN [pc |-> "done",
          scheme |-> SchemeResult(TRUE, SchemeDict(_generate_basic_marking_scheme(questions)))]
    ELSE [pc |-> "scheme_api", scheme |-> SchemeResult(FALSE, NoSchemeDict)]

\* the result of generate_question_paper (lines 175-185)
GenerateResult(generator, questions, scheme) ==
    [NoGenResult EXCEPT !.success = TRUE, !.questions = questions,
                        !.marking_scheme = scheme,
                        !.daily_requests = generator.daily_requests,
                        !.requests_remaining =
                            generator.max_daily_requests - generator.daily_requests]

\* generate_question_paper from the return of the external call to the
\* await inside create_marking_scheme (lines 165-179) or, on an error, to
\* its end (lines 187-193).  parsed holds the questions
\* _parse_gemini_response reads from the response text.
GenerateApiReturn(c, Responses) ==
    /\ gen[c].pc = "generate_api"
    /\ \E response \in Responses :
         IF ~response.ok
         THEN /\ gen' = [gen EXCEPT ![c] =
                        Finished(@, [NoGenResult EXCEPT !.error = "Generation failed",
                                                        !.daily_requests = qg.daily_requests])]
              /\ qg' = qg
         ELSE LET generator == [qg EXCEPT !.daily_requests = @ + 1]
                  entry == SchemeEntry(gen[c], generator, response.parsed)
              IN  /\ qg' = generator
                  /\ gen' = [gen EXCEPT ![c] =
                        IF entry.pc = "done"
                        THEN Finished([@ EXCEPT !.questions = response.parsed],
                                      GenerateResult(generator, response.parsed, entry.scheme))
                        ELSE [@ EXCEPT !.pc = "scheme_api", !.questions = response.parsed]]
    /\ UNCHANGED <<gs, grade, today, probe>>

\* create_marking_scheme called directly, up to its await
SchemeBegin(c, QuestionLists) ==
    /\ gen[c].pc = "idle"
    /\ \E questions \in QuestionLists :
         LET call == [IdleCall EXCEPT !.op = "create_marking_scheme", !.questions = questions]
             entry == SchemeEntry(call, qg, questions)
         IN  gen' = [gen EXCEPT ![c] =
                 IF entry.pc = "done"
                 THEN Finished(call, [NoGenResult EXCEPT !.success = entry.scheme.success,
                                                         !.marking_scheme = entry.scheme])
                 ELSE [call EXCEPT !.pc = "scheme_api"]]
    /\ UNCHANGED <<gs, grade, qg, today, probe>>

\* create_marking_scheme from the return of the external call to its end,
\* and with it the end of a generate_question_paper that awaited it
SchemeApiReturn(c, Responses) ==
    /\ gen[c].pc = "scheme_api"
    /\ \E response \in Responses :
         LET scheme == SchemeAfterCall(gen[c].questions, response)
             call == [gen[c] EXCEPT !.response = <<response>>]
         IN  gen' = [gen EXCEPT ![c] =
                 IF call.op = "generate_question_paper"
                 THEN Finished(call, GenerateResult(qg, call.questions, scheme))
                 ELSE Finished(call, [NoGenResult EXCEPT !.success = scheme.success,
                                                         !.marking_scheme = scheme])]
    /\ UNCHANGED <<gs, grade, qg, today, probe>>

\* get_usage_stats: it reads self.use_free_tier, which only a successful
\* _initialize_gemini assigns (AttributeError otherwise)
GetUsageStats(c) ==
    /\ gen[c].pc = "idle"
    /\ LET call == [IdleCall EXCEPT !.op = "get_usage_stats"]
           generator == _reset_daily_counter_if_needed(qg, today)
       IN  /\ qg' = generator
           /\ gen' = [gen EXCEPT ![c] =
                 IF generator.use_free_tier = "unset"
                 THEN Finished(call, [NoGenResult EXCEPT !.raised = TRUE,
                                                         !.error = "AttributeError"])
                 ELSE Finished(call, [NoGenResult EXCEPT
                          !.success = TRUE,
                          !.daily_requests = generator.daily_requests,
                          !.requests_remaining =
                              generator.max_daily_requests - generator.daily_requests])]
    /\ UNCHANGED <<gs, grade, today, probe>>

\* the caller takes the result
GenReturn(c) ==
    /\ gen[c].pc = "done"
    /\ gen' = [gen EXCEPT ![c] = IdleCall]
    /\ UNCHANGED <<gs, grade, qg, today, probe>>

-----------------------------------------------------------------------------
(* Inputs *)

Paris == <<"P","a","r","i","s">>
PARIS == <<"P","A","R","I","S">>
London == <<"L","o","n","d","o","n">>
Sun == <<"s","u","n">>
Energy == <<"e","n","e","r","g","y">>
Plants == <<"p","l","a","n","t","s">>
Light == <<"l","i","g","h","t">>
Blank == <<" ", " ">>
SunEnergy == <<"S","u","n">> \o <<" ">> \o Energy
AllFour == Sun \o <<" ">> \o Energy \o <<" ">> \o Plants \o <<" ">> \o Light
FourKeywords == <<Sun, Energy, Plants, Light>>

Question(type, points, correct_answer, correct_is_text) ==
    [id |-> "", type |-> type, points |-> points,
     correct_answer |-> correct_answer, correct_is_text |-> correct_is_text]

QMc == Question("multiple_choice", JNum(2), Paris, TRUE)
QSa == Question("short_answer", JNum(4), AllFour, TRUE)
QEs == Question("essay", JAbsent, Sun, TRUE)
\* a correct_answer that is a JSON number, not a string
QNumSa == Question("short_answer", JNum(1), <<>>, FALSE)
QNumMc == Question("multiple_choice", JNum(1), <<>>, FALSE)

Criteria(method, keywords, min_keywords, keyword_weight, case_sensitive, has_template) ==
    [question_id |-> "", grading_method |-> method, keywords |-> keywords,
     min_keywords |-> min_keywords, keyword_weight |-> keyword_weight,
     case_sensitive |-> case_sensitive, has_template |-> has_template]

Exact(case_sensitive) == Criteria("exact_match", <<>>, JAbsent, JAbsent, case_sensitive, FALSE)
Keyword(min_keywords, keyword_weight, has_template) ==
    Criteria("keyword_match", FourKeywords, min_keywords, keyword_weight, FALSE, has_template)
Method(method, keywords) == Criteria(method, keywords, JAbsent, JAbsent, FALSE, FALSE)

\* A question with the answer given for it (none, one under its identifier,
\* or one under another identifier) and the criterion the scheme has for it
\* (none or one).
Missing == [kind |-> "missing", answer |-> <<>>]
Given(text) == [kind |-> "given", answer |-> text]
Stray(text) == [kind |-> "stray", answer |-> text]
Case(question, answer, criteria) ==
    [question |-> question, answer |-> answer, criteria |-> criteria]

Cases == {
    Case(QMc, Given(PARIS), <<Exact(FALSE)>>),
    Case(QMc, Given(PARIS), <<Exact(TRUE)>>),
    Case(QMc, Given(London), <<Exact(FALSE)>>),
    Case(QMc, Missing, <<Exact(FALSE)>>),
    Case(QMc, Given(Blank), <<>>),
    Case(QSa, Given(SunEnergy), <<Keyword(JAbsent, JAbsent, FALSE)>>),
    Case(QSa, Given(SunEnergy), <<Keyword(JNum(2), JNum(2), TRUE)>>),
    Case(QSa, Given(SunEnergy), <<Keyword(JNum(2), JNum(-2), FALSE)>>),
    Case(QSa, Given(SunEnergy), <<Keyword(JNum(2), JNum(6), FALSE)>>),
    Case(QSa, Given(SunEnergy), <<Keyword(JStr, JAbsent, FALSE)>>),
    Case(QSa, Given(SunEnergy), <<Keyword(JAbsent, JStr, FALSE)>>),
    Case(QSa, Given(SunEnergy), <<Keyword(JNum(3), JAbsent, FALSE)>>),
    Case(QSa, Given(AllFour), <<Keyword(JAbsent, JAbsent, FALSE)>>),
    Case(QSa, Given(London), <<Keyword(JNum(0), JAbsent, FALSE)>>),
    Case(QSa, Given(SunEnergy), <<Method("ai_enhanced", FourKeywords)>>),
    Case(QSa, Given(SunEnergy), <<Method("ai_enhanced", <<>>)>>),
    Case(QSa, Given(SunEnergy), <<>>),
    Case(QSa, Given(SunEnergy), <<Method("", FourKeywords)>>),
    Case(QSa, Given(SunEnergy), <<Method("rubric", FourKeywords)>>),
    Case(QSa, Given(<<>>), <<Method("ai_enhanced", FourKeywords)>>),
    Case(QSa, Stray(SunEnergy), <<Keyword(JAbsent, JAbsent, FALSE)>>),
    Case(QEs, Given(London), <<Method("keyword_match", <<>>)>>),
    Case(QNumSa, Given(London), <<Exact(FALSE)>>),
    Case(QNumMc, Given(PARIS), <<Keyword(JAbsent, JAbsent, FALSE)>>)
}

RECURSIVE Flatten(_)
Flatten(seqs) == IF seqs = <<>> THEN <<>> ELSE seqs[1] \o Flatten(Tail(seqs))

\* The submission_data made of a list of cases: the i-th question gets the
\* i-th identifier.
QuestionsOf(cases) == [i \in 1..Len(cases) |-> [cases[i].question EXCEPT !.id = QIds[i]]]
AnswersOf(cases) ==
    Flatten([i \in 1..Len(cases) |->
        IF cases[i].answer.kind = "missing" THEN <<>>
        ELSE <<[question_id |-> IF cases[i].answer.kind = "stray" THEN "other" ELSE QIds[i],
                answer |-> cases[i].answer.answer]>>])
CriteriaOf(cases) ==
    Flatten([i \in 1..Len(cases) |->
        IF cases[i].criteria = <<>> THEN <<>>
        ELSE <<[cases[i].criteria[1] EXCEPT !.question_id = QIds[i]]>>])

\* The cases of the questions after the first: a right answer, a partial
\* credit, a missing answer, an answer graded by the external model and a
\* question whose grading raises.
RestCases == {
    Case(QMc, Given(PARIS), <<Exact(FALSE)>>),
    Case(QMc, Missing, <<Exact(FALSE)>>),
    Case(QSa, Given(SunEnergy), <<Keyword(JAbsent, JAbsent, FALSE)>>),
    Case(QSa, Given(SunEnergy), <<Method("ai_enhanced", <<>>)>>),
    Case(QNumSa, Given(London), <<Exact(FALSE)>>)
}

\* The lists of n cases: the first of FirstCases, the others of OtherCases.
CaseLists(FirstCases, OtherCases, n) ==
    IF n = 0 THEN {<<>>}
    ELSE {<<first>> \o rest : first \in FirstCases, rest \in [1..(n - 1) -> OtherCases]}

\* The submissions over a set of case lists: each without a marking scheme
\* and with one, whose declared total is absent, 2, or the sum of the
\* questions' points.
SubmissionsOf(lists) ==
    LET plain(cases) == [questions |-> QuestionsOf(cases),
                         student_answers |-> AnswersOf(cases),
                         marking_scheme |-> NoScheme]
        schemed(cases, total_points) ==
            [plain(cases) EXCEPT !.marking_scheme =
                [present |-> TRUE, total_points |-> total_points,
                 criteria |-> CriteriaOf(cases)]]
    IN  UNION {{plain(cases)} \cup
               {schemed(cases, tp) :
                   tp \in {JAbsent, JNum(2), JNum(SumOfPoints(QuestionsOf(cases)))}} :
               cases \in lists}

Submissions == SubmissionsOf(UNION {CaseLists(Cases, RestCases, n) : n \in 0..MaxQuestions})

\* What the external model may answer to a grading prompt.
ApiOutcomes == {
    ApiFailure,
    ApiText(<<PointsLine("num", Den + Den \div 2), FeedbackLine(40)>>),
    ApiText(<<OtherLine, PointsLine("num", 100 * Den), FeedbackLine(501)>>),
    ApiText(<<PointsLine("num", 0 - Den)>>),
    ApiText(<<PointsLine("nan", 0), FeedbackLine(500)>>),
    ApiText(<<PointsLine("bad", 0)>>),
    ApiText(<<OtherLine>>)
}

-----------------------------------------------------------------------------
(* Inputs of the question generator *)

\* MAX_DAILY_REQUESTS, the value read into max_daily_requests
MaxDailyRequests == 2

\* The question lists given to create_marking_scheme: each question has no
\* 'id' key or the identifier of the next position.
SchemeQuestions(i) ==
    {[q EXCEPT !.id = id] : q \in {QMc, QSa, QEs, [QEs EXCEPT !.type = ""]},
                            id \in {"", QIds[i + 1]}}

\* two multiple_choice questions of 2 points and an essay of 10
SynthesisScenario ==
    <<Question("multiple_choice", JNum(2), Paris, TRUE),
      Question("multiple_choice", JNum(2), London, TRUE),
      Question("essay", JNum(10), AllFour, TRUE)>>

QuestionLists ==
    {SynthesisScenario} \cup
    UNION {{questions \in [1..n -> UNION {SchemeQuestions(i) : i \in 1..n}] :
               \A i \in 1..n : questions[i] \in SchemeQuestions(i)} :
           n \in 0..MaxQuestions}

AiEntry(question_id, question_number, method, keywords) ==
    [is_dict |-> TRUE, question_id |-> question_id, question_number |-> question_number,
     grading_method |-> method, has_keywords |-> keywords # <<>>, keywords |-> keywords,
     min_keywords |-> JAbsent, keyword_weight |-> JAbsent, case_sensitive |-> FALSE]

\* an entry of the criteria list that is a string
NotADict == [AiEntry("", JAbsent, "", <<>>) EXCEPT !.is_dict = FALSE]

AiEntries == {
    AiEntry("q1", JAbsent, "exact_match", <<>>),
    AiEntry("q2", JNum(2), "ai_enhanced", FourKeywords),
    AiEntry("q2", JAbsent, "keyword_match", <<Sun>>),
    AiEntry("", JNum(1), "", <<>>),
    AiEntry("zz", JAbsent, "exact_match", <<>>),
    NotADict
}

AiScheme(criteria_kind, criteria, total_points) ==
    [criteria_kind |-> criteria_kind, criteria |-> criteria, total_points |-> total_points,
     total_questions |-> JAbsent, time_limit_minutes |-> JAbsent,
     question_breakdown |-> Breakdown(<<>>), has_breakdown |-> FALSE,
     ai_generated |-> "true"]

SchemeResponse(ok, json, ai_scheme) == [ok |-> ok, json |-> json, ai_scheme |-> ai_scheme]

\* What the external model may answer to a marking-scheme prompt: the call
\* fails, the text holds no JSON object, one that does not parse, or an
\* object whose criteria are absent, not a list, or a list of up to two
\* entries (too few, too many, repeated, out of order, not dicts).
SchemeResponsesOf(Entries) ==
    {SchemeResponse(FALSE, "none", AiScheme("absent", <<>>, JAbsent)),
     SchemeResponse(TRUE, "none", AiScheme("absent", <<>>, JAbsent)),
     SchemeResponse(TRUE, "invalid", AiScheme("absent", <<>>, JAbsent)),
     SchemeResponse(TRUE, "object", AiScheme("absent", <<>>, JNum(100))),
     SchemeResponse(TRUE, "object", AiScheme("not_list", <<>>, JAbsent))}
    \cup {SchemeResponse(TRUE, "object", AiScheme("list", criteria, JAbsent)) :
             criteria \in UNION {[1..n -> Entries] : n \in 0..2}}

SchemeResponses == SchemeResponsesOf(AiEntries)

\* What _parse_gemini_response reads from the answer to a question prompt
ParsedQuestion(i, type, points) ==
    [Question(type, JNum(points), Paris, TRUE) EXCEPT !.id = QIds[i]]

-----------------------------------------------------------------------------
(* The grading service on its own *)

NoKeyGenerator == GeneratorAfterInit(FALSE, FALSE, TRUE, MaxDailyRequests, 0)
NoCallers == [c \in Callers |-> OffCall]
NoProbe == [p |-> 0, letter |-> ""]

Init ==
    /\ gs \in {ServiceAfterInit(k, r, TRUE) : k \in BOOLEAN, r \in BOOLEAN}
    /\ grade = IdleGrade
    /\ qg = NoKeyGenerator
    /\ gen = NoCallers
    /\ today = 0
    /\ probe = NoProbe

Next ==
    \/ GradeBegin(Submissions)
    \/ GradeQuestion(ApiOutcomes)
    \/ GradeFinish
    \/ GradeReturn

Spec == Init /\ [][Next]_vars

-----------------------------------------------------------------------------
(* create_marking_scheme on its own, for one caller *)

InitScheme ==
    /\ gs = ServiceAfterInit(FALSE, FALSE, TRUE)
    /\ grade = IdleGrade
    /\ qg \in {GeneratorAfterInit(k, FALSE, TRUE, MaxDailyRequests, 0) : k \in BOOLEAN}
    /\ gen = [NoCallers EXCEPT !["a"] = IdleCall]
    /\ today = 0
    /\ probe = NoProbe

NextScheme ==
    \E c \in Callers :
        \/ SchemeBegin(c, QuestionLists)
        \/ SchemeApiReturn(c, SchemeResponses)
        \/ GenReturn(c)

SpecScheme == InitScheme /\ [][NextScheme]_vars

-----------------------------------------------------------------------------
(* _calculate_letter_grade on its own: the percentages from -MaxPercentage *)
(* to MaxPercentage in steps of a hundredth                                *)

MaxPercentage == 120

InitLetter ==
    /\ gs = ServiceAfterInit(FALSE, FALSE, TRUE)
    /\ grade = IdleGrade
    /\ qg = NoKeyGenerator
    /\ gen = NoCallers
    /\ today = 0
    /\ probe \in {[NoProbe EXCEPT !.p = p] :
                     p \in (0 - MaxPercentage * 100)..(MaxPercentage * 100)}

CalculateLetterGrade ==
    /\ probe.letter = ""
    /\ probe' = [probe EXCEPT !.letter = _calculate_letter_grade(probe.p, 100)]
    /\ UNCHANGED <<gs, grade, qg, gen, today>>

NextLetter == CalculateLetterGrade

SpecLetter == InitLetter /\ [][NextLetter]_vars

-----------------------------------------------------------------------------
(* The scenario of three questions worth 2, 5 and 10 points: a multiple-   *)
(* choice question and two open-ended ones graded by the external model    *)

QTwo == Question("multiple_choice", JNum(2), Paris, TRUE)
QFive == Question("short_answer", JNum(5), AllFour, TRUE)
QTen == Question("essay", JNum(10), Sun, TRUE)

ScenarioAnswers == {Given(PARIS), Given(SunEnergy), Missing}

ScenarioCases ==
    {<<Case(QTwo, a1, <<>>), Case(QFive, a2, <<>>), Case(QTen, a3, <<>>)>> :
        a1 \in ScenarioAnswers, a2 \in ScenarioAnswers, a3 \in ScenarioAnswers}

ScenarioSubmissions == SubmissionsOf(ScenarioCases)

ScenarioApiOutcomes ==
    {ApiFailure} \cup
    {ApiText(<<PointsLine("num", points * Den), FeedbackLine(40)>>) : points \in {0, 3, 6, 10}}

InitScenario ==
    /\ gs = ServiceAfterInit(TRUE, FALSE, TRUE)
    /\ grade = IdleGrade
    /\ qg = NoKeyGenerator
    /\ gen = NoCallers
    /\ today = 0
    /\ probe = NoProbe

NextScenario ==
    \/ GradeBegin(ScenarioSubmissions)
    \/ GradeQuestion(ScenarioApiOutcomes)
    \/ GradeFinish
    \/ GradeReturn

SpecScenario == InitScenario /\ [][NextScenario]_vars

-----------------------------------------------------------------------------
(* Both services constructed in one environment, and every public          *)
(* operation of theirs, on small inputs                                    *)

\* the days the clock may advance
MaxDay == 1

ServiceCases == {
    Case(QSa, Given(SunEnergy), <<Method("ai_enhanced", <<>>)>>),
    Case(QSa, Missing, <<>>)
}

ServiceSubmissions ==
    {sd \in SubmissionsOf(UNION {CaseLists(ServiceCases, {}, n) : n \in 0..1}) :
        sd.marking_scheme.total_points.kind # "absent"}

ServiceApiOutcomes ==
    {ApiFailure, ApiText(<<PointsLine("num", Den), FeedbackLine(40)>>)}

ServiceQuestionLists == {<<>>, <<QMc>>}

ServiceSchemeResponses == {
    SchemeResponse(FALSE, "none", AiScheme("absent", <<>>, JAbsent)),
    SchemeResponse(TRUE, "object",
                   AiScheme("list", <<AiEntry("q1", JAbsent, "exact_match", <<>>)>>, JAbsent))
}

GenerateResponses == {
    [ok |-> FALSE, parsed |-> <<>>],
    [ok |-> TRUE, parsed |-> <<>>],
    [ok |-> TRUE, parsed |-> <<ParsedQuestion(1, "multiple_choice", 2)>>]
}

InitService ==
    /\ \E k \in BOOLEAN, r \in BOOLEAN, f \in BOOLEAN :
          /\ gs = ServiceAfterInit(k, r, f)
          /\ qg = GeneratorAfterInit(k, r, f, MaxDailyRequests, 0)
    /\ grade = IdleGrade
    /\ gen = [NoCallers EXCEPT !["a"] = IdleCall]
    /\ today = 0
    /\ probe = NoProbe

\* datetime.now().date() moves on
NextDay ==
    /\ today < MaxDay
    /\ today' = today + 1
    /\ UNCHANGED <<gs, grade, qg, gen, probe>>

NextService ==
    \/ GradeBegin(ServiceSubmissions)
    \/ GradeQuestion(ServiceApiOutcomes)
    \/ GradeFinish
    \/ ProvideFeedback
    \/ GetGradingStats
    \/ GradeReturn
    \/ NextDay
    \/ \E c \in Callers :
        \/ (qg.daily_requests <= MaxDailyRequests /\ GenerateBegin(c))
        \/ GenerateApiReturn(c, GenerateResponses)
        \/ SchemeBegin(c, ServiceQuestionLists)
        \/ SchemeApiReturn(c, ServiceSchemeResponses)
        \/ GetUsageStats(c)
        \/ GenReturn(c)

SpecService == InitService /\ [][NextService]_vars

-----------------------------------------------------------------------------
(* Properties *)

GradingOps == {"grade_submission", "grade_submission_with_scheme"}

\* a grading call has returned a result with success
Succeeded == grade.pc = "done" /\ grade.op \in GradingOps /\ grade.result.success

\* the k-th question of the call at hand has a blank answer: none, an empty
\* one or white space only
BlankAnswer(k) ==
    \A n \in 1..Len(grade.student_answers) :
        grade.student_answers[n].question_id = grade.questions[k].id
            => \A m \in 1..Len(grade.student_answers[n].answer) :
                   IsSpace(grade.student_answers[n].answer[m])

\* the k-th question has no answer under its identifier
Unanswered(k) ==
    \A n \in 1..Len(grade.student_answers) :
        grade.student_answers[n].question_id # grade.questions[k].id

\* the k-th question was graded with 0 points and "No answer provided",
\* without a grading method and without an external call
GradedAsNoAnswer(k) ==
    /\ ~grade.steps[k].raised
    /\ k <= Len(grade.question_grades)
    /\ grade.question_grades[k].question_id = grade.questions[k].id
    /\ grade.question_grades[k].points_awarded = 0
    /\ grade.question_grades[k].feedback = [kind |-> "No answer provided", missing |-> <<>>, len |-> 0]
    /\ grade.question_grades[k].grading_method = "unset"
    /\ grade.steps[k].calls = 0
    /\ grade.steps[k].trace = <<>>

\* C1: every successful result of grade_submission and
\* grade_submission_with_scheme has a percentage from 0 to 100 (0 to 1000
\* tenths), and a percentage of 0 when max_possible_score is 0.
C1_PercentageInRange ==
    Succeeded =>
        /\ 0 <= grade.result.percentage
        /\ grade.result.percentage <= 1000
        /\ (grade.result.max_possible_score = 0 => grade.result.percentage = 0)

\* C2: every question grade, of whatever grading path, has
\* 0 <= points_awarded <= points_possible.
C2_PointsWithinBounds ==
    \A k \in 1..Len(grade.question_grades) :
        /\ 0 <= grade.question_grades[k].points_awarded
        /\ grade.question_grades[k].points_awarded
               <= grade.question_grades[k].points_possible * Den

\* C3: in both grading operations a question whose answer is empty or white
\* space only gets 0 points and the feedback "No answer provided", and
\* neither a grading method nor an external call is made for it.
C3_BlankAnswerGetsZero ==
    \A k \in 1..Len(grade.steps) : BlankAnswer(k) => GradedAsNoAnswer(k)

\* a call with a marking scheme succeeded that had a white-space answer to a
\* question whose criterion asks for ai_enhanced grading, and an empty one
C3_BlankAnswerGraded ==
    /\ Succeeded
    /\ grade.marking_scheme.present
    /\ \E k \in 1..Len(grade.questions) :
         /\ BlankAnswer(k) /\ ~Unanswered(k)
         /\ \E n \in 1..Len(grade.marking_scheme.criteria) :
              /\ grade.marking_scheme.criteria[n].question_id = grade.questions[k].id
              /\ grade.marking_scheme.criteria[n].grading_method = "ai_enhanced"

\* C4: no failure of grading one question is fatal to the call: once the
\* loop over the questions has started, the call returns success with one
\* grade per question.
C4_NoQuestionFailureIsFatal ==
    (grade.pc = "done" /\ grade.op \in GradingOps /\ grade.steps # <<>>)
        => /\ grade.result.success
           /\ Len(grade.result.detailed_feedback) = Len(grade.questions)

\* C5: with no API credential configured every public operation of the two
\* services returns a result and does not raise: the grading operations and
\* provide_feedback the "not available" failure, generate_question_paper the
\* "not configured" failure.
C5_NoCredentialNeverRaises ==
    /\ (~gs.api_key /\ grade.pc = "done") =>
          /\ ~grade.result.raised
          /\ grade.op \in GradingOps
                => grade.result = [NoResult EXCEPT !.error = "Auto-grading not available"]
          /\ grade.op = "provide_feedback" => ~grade.result.success
    /\ \A c \in Callers : (~qg.api_key /\ gen[c].pc = "done") =>
          /\ ~gen[c].result.raised
          /\ gen[c].op = "generate_question_paper" => ~gen[c].result.success

LetterThresholds ==
    <<[at |-> 97, letter |-> "A+"], [at |-> 93, letter |-> "A"], [at |-> 90, letter |-> "A-"],
      [at |-> 87, letter |-> "B+"], [at |-> 83, letter |-> "B"], [at |-> 80, letter |-> "B-"],
      [at |-> 77, letter |-> "C+"], [at |-> 73, letter |-> "C"], [at |-> 70, letter |-> "C-"],
      [at |-> 67, letter |-> "D+"], [at |-> 65, letter |-> "D"]>>

\* the letter of the highest threshold that hundredths/100 percent reaches
HighestThresholdLetter(hundredths) ==
    LET reached == {k \in 1..Len(LetterThresholds) :
                       hundredths >= LetterThresholds[k].at * 100}
    IN  IF reached = {} THEN "F"
        ELSE LetterThresholds[CHOOSE k \in reached :
                 \A j \in reached : LetterThresholds[j].at <= LetterThresholds[k].at].letter

\* C7: for every percentage, _calculate_letter_grade returns the letter of
\* the highest threshold the percentage reaches, the thresholds being
\* inclusive lower bounds, and "F" below 65; 93.0 gives "A" and 92.99 "A-".
C7_LetterOfHighestThreshold ==
    probe.letter # "" =>
        /\ probe.letter = HighestThresholdLetter(probe.p)
        /\ probe.p = 9300 => probe.letter = "A"
        /\ probe.p = 9299 => probe.letter = "A-"

\* the letter of 93.00 percent has been calculated
C7_BoundaryGraded == probe.p = 9300 /\ probe.letter # ""

\* the scenario: a successful result over questions worth 2, 5 and 10 points
\* (17 in all) whose grades award 2, 3 and 6 points
ScenarioGraded ==
    /\ Succeeded
    /\ grade.result.max_possible_score = 17
    /\ Len(grade.result.detailed_feedback) = 3
    /\ [k \in 1..3 |-> grade.result.detailed_feedback[k].points_possible] = <<2, 5, 10>>
    /\ [k \in 1..3 |-> grade.result.detailed_feedback[k].points_awarded]
           = <<2 * Den, 3 * Den, 6 * Den>>

\* C8 as stated: three questions worth 2, 5 and 10 points graded 2, 3 and 6
\* give total_score 11, percentage 64.7 and grade "D".
C8_ScenarioGradeD ==
    ScenarioGraded =>
        /\ grade.result.total_score = 11 * Den
        /\ grade.result.percentage = 647
        /\ grade.result.grade = "D"

\* C8, amended: three questions worth 2, 5 and 10 points graded 2, 3 and 6
\* give total_score 11, percentage 64.7 and grade "F", 64.7 being below the
\* 65 that "D" starts at.
C8_ScenarioGradeF ==
    ScenarioGraded =>
        /\ grade.result.total_score = 11 * Den
        /\ grade.result.percentage = 647
        /\ grade.result.grade = "F"

\* the scenario has been graded by grade_submission
C8_ScenarioReached == ScenarioGraded /\ grade.op = "grade_submission"

\* C9: in a successful result max_possible_score is the total_points the
\* marking scheme declares (0 if it declares none) when
\* grade_submission_with_scheme is given a non-empty scheme, and the sum of
\* the questions' own points otherwise.
C9_MaxPossibleScore ==
    Succeeded =>
        IF grade.op = "grade_submission_with_scheme" /\ grade.marking_scheme.present
        THEN /\ grade.result.marking_scheme_used
             /\ grade.marking_scheme.total_points.kind = "num"
                  => grade.result.max_possible_score = grade.marking_scheme.total_points.v
             /\ grade.marking_scheme.total_points.kind = "absent"
                  => grade.result.max_possible_score = 0
        ELSE grade.result.max_possible_score
                 = SumSeq([k \in 1..Len(grade.questions) |->
                              IF grade.questions[k].points.kind = "absent" THEN 2
                              ELSE grade.questions[k].points.v])

\* a call with a scheme succeeded whose declared total differs from the sum
\* of the points of its two questions
C9_DeclaredTotalDiffers ==
    /\ Succeeded
    /\ grade.marking_scheme.present
    /\ Len(grade.questions) = 2
    /\ grade.marking_scheme.total_points.kind = "num"
    /\ grade.marking_scheme.total_points.v # SumOfPoints(grade.questions)

\* C10: a scheme that create_marking_scheme returns with success has one
\* criterion per question: as many criteria as questions, the i-th carrying
\* the identifier of the i-th question (the positional one, q<i>, where the
\* question has none), whatever the external model answered.
C10_OneCriterionPerQuestion ==
    \A c \in Callers :
        (gen[c].pc = "done" /\ gen[c].op = "create_marking_scheme" /\ gen[c].result.success)
            => LET criteria == gen[c].result.marking_scheme.scheme.criteria
                   questions == gen[c].questions
               IN  /\ Len(criteria) = Len(questions)
                   /\ \A i \in 1..Len(questions) :
                        /\ criteria[i].question_number = i
                        /\ questions[i].id # "" => criteria[i].question_id = questions[i].id
                        /\ questions[i].id = "" => criteria[i].question_id = QIds[i]

\* a scheme was returned for two questions, one criterion taken from the
\* external model's answer and one made up for a question the answer left
\* out
C10_MixedSchemeReturned ==
    \E c \in Callers :
        /\ gen[c].pc = "done" /\ gen[c].op = "create_marking_scheme" /\ gen[c].result.success
        /\ Len(gen[c].questions) = 2
        /\ LET criteria == gen[c].result.marking_scheme.scheme.criteria
           IN  /\ Len(criteria) = 2
               /\ \E i, j \in 1..2 : criteria[i].from_ai /\ ~criteria[j].from_ai

\* caller c has a result of create_marking_scheme for which the external
\* model was called
SchemeCalled(c) ==
    gen[c].pc = "done" /\ gen[c].op = "create_marking_scheme" /\ gen[c].response # <<>>

\* the call of c failed, or its response held no JSON object or one that
\* json.loads rejects
ResponseUnusable(c) ==
    ~gen[c].response[1].ok \/ gen[c].response[1].json \in {"none", "invalid"}

\* C11: if the external call fails or its marking-scheme response does not
\* parse as JSON, create_marking_scheme returns success with exactly the
\* locally synthesized scheme: ai_generated false, every criterion made from
\* its question, the totals those of the questions.
C11_UnusableResponseGivesLocalScheme ==
    \A c \in Callers :
        (SchemeCalled(c) /\ ResponseUnusable(c)) =>
            LET scheme == gen[c].result.marking_scheme.scheme
                questions == gen[c].questions
            IN  /\ gen[c].result.success
                /\ gen[c].result.marking_scheme.success
                /\ scheme = [empty |-> FALSE] @@ _generate_basic_marking_scheme(questions)
                /\ scheme.ai_generated = "false"
                /\ scheme.total_points = [kind |-> "num", v |-> SumOfPoints(questions)]
                /\ Len(scheme.criteria) = Len(questions)
                /\ \A k \in 1..Len(questions) :
                     /\ ~scheme.criteria[k].from_ai
                     /\ scheme.criteria[k] = _create_default_criteria(questions[k], k)

\* a response that json.loads rejects was answered with a scheme for two
\* questions
C11_InvalidJsonAnswered ==
    \E c \in Callers :
        /\ SchemeCalled(c)
        /\ gen[c].response[1].ok /\ gen[c].response[1].json = "invalid"
        /\ Len(gen[c].questions) = 2

\* every question of caller c's list has one of the three types
TypedQuestions(c) ==
    \A k \in 1..Len(gen[c].questions) :
        gen[c].questions[k].type \in {"multiple_choice", "short_answer", "essay"}

\* how many questions of caller c's list have the type
TypeCount(c, type) ==
    Cardinality({k \in 1..Len(gen[c].questions) : gen[c].questions[k].type = type})

\* C12: a locally synthesized scheme is a function of the question list
\* (of questions of the three types): total_points is the sum of the
\* questions' points, time_limit_minutes is 2 per multiple_choice, 5 per
\* short_answer and 3 per essay question, question_breakdown counts the
\* questions by type; two multiple_choice questions of 2 points and an essay
\* of 10 give 14 points, 7 minutes and the breakdown 2, 0, 1.
C12_LocalSynthesis ==
    \A c \in Callers :
        (/\ gen[c].pc = "done" /\ gen[c].op = "create_marking_scheme"
         /\ gen[c].result.success
         /\ gen[c].result.marking_scheme.scheme.ai_generated = "false"
         /\ TypedQuestions(c)) =>
            LET scheme == gen[c].result.marking_scheme.scheme
                questions == gen[c].questions
                points(k) == IF questions[k].points.kind = "absent" THEN 2
                             ELSE questions[k].points.v
            IN  /\ scheme.total_points.kind = "num"
                /\ scheme.total_points.v = SumSeq([k \in 1..Len(questions) |-> points(k)])
                /\ scheme.time_limit_minutes.kind = "num"
                /\ scheme.time_limit_minutes.v =
                       2 * TypeCount(c, "multiple_choice") + 5 * TypeCount(c, "short_answer")
                       + 3 * TypeCount(c, "essay")
                /\ scheme.question_breakdown =
                       [multiple_choice |-> TypeCount(c, "multiple_choice"),
                        short_answer |-> TypeCount(c, "short_answer"),
                        essay |-> TypeCount(c, "essay")]
                /\ questions = SynthesisScenario =>
                     /\ scheme.total_points.v = 14
                     /\ scheme.time_limit_minutes.v = 7
                     /\ scheme.question_breakdown =
                            [multiple_choice |-> 2, short_answer |-> 0, essay |-> 1]

\* the scheme of the scenario has been synthesized locally
C12_ScenarioSynthesized ==
    \E c \in Callers :
        /\ gen[c].pc = "done" /\ gen[c].op = "create_marking_scheme"
        /\ gen[c].questions = SynthesisScenario
        /\ gen[c].result.success
        /\ gen[c].result.marking_scheme.scheme.ai_generated = "false"

-----------------------------------------------------------------------------
(* The grading strategies on their own.  A probe holds a criterion (or     *)
(* none), two questions with an answer each, and the outcomes of the       *)
(* external calls to come; both answers are graded, by the multiple-choice *)
(* comparator or through _grade_individual_question_with_scheme.           *)

Cat == <<"C","a","t">>
Bat == <<"B","a","t">>
LowerParis == <<"p","a","r","i","s">>
Pizza == <<"p","i","z","z","a">>
PaddedParis == <<" ">> \o LowerParis \o <<" ", " ">>
OptionA == <<"A", ")", " ">> \o Paris
OptionB == <<"B", ".", " ">> \o Paris
ParenA == <<"(", "a", ")", " ">> \o Paris
LetterA == <<"a">>
ThreeKeywords == <<Sun, Energy, Plants>>
PlantsLight == Plants \o <<" ">> \o Light
ThreeOfFour == <<"S","U","N">> \o <<" ">> \o Energy \o <<",">> \o Plants

Graded(question, student_answer) == [question |-> question, student_answer |-> student_answer]

Probe(kind, criteria, first, second, rs) ==
    [kind |-> kind, criteria |-> criteria, first |-> first, second |-> second,
     rs |-> rs, out |-> <<>>]

TextQuestion(type, points, correct_answer) ==
    [Question(type, JNum(points), correct_answer, TRUE) EXCEPT !.id = "q1"]

ComparatorTexts ==
    {Paris, PARIS, LowerParis, PaddedParis, London, Pizza, Cat, Bat, OptionA, OptionB,
     ParenA, LetterA, <<>>}

ComparatorProbes ==
    {Probe("comparator", <<>>, Graded(TextQuestion("multiple_choice", 2, c), a),
           Graded(TextQuestion("multiple_choice", 2, c), a), <<ApiFailure, ApiFailure>>) :
        c \in ComparatorTexts, a \in ComparatorTexts \ {<<>>, PaddedParis}}

ExactCorrect == {Paris, PARIS, PaddedParis, LetterA}
ExactAnswers == {Paris, PARIS, LowerParis, PaddedParis, London, <<"A">>}

ExactProbes ==
    {Probe("scheme", <<[Exact(cs) EXCEPT !.question_id = "q1"]>>,
           Graded(TextQuestion("multiple_choice", 2, c1), a1),
           Graded(TextQuestion("multiple_choice", 2, c2), a2), <<ApiFailure, ApiFailure>>) :
        cs \in BOOLEAN, c1 \in ExactCorrect, c2 \in ExactCorrect,
        a1 \in ExactAnswers, a2 \in ExactAnswers}

KeywordAnswers ==
    {London, Sun, Energy, SunEnergy, PlantsLight, ThreeOfFour, AllFour, Upper(AllFour)}

KeywordCriteria ==
    {[Criteria("keyword_match", keywords, min_keywords, keyword_weight, FALSE, has_template)
         EXCEPT !.question_id = "q1"] :
        keywords \in {FourKeywords, ThreeKeywords},
        min_keywords \in {JAbsent, JNum(0), JNum(2), JNum(3), JNum(5)},
        keyword_weight \in {JAbsent, JNum(0), JNum(1), JNum(2), JNum(3), JNum(0 - 2)},
        has_template \in BOOLEAN}

KeywordProbes ==
    {Probe("scheme", <<criteria>>,
           Graded(TextQuestion("short_answer", 4, AllFour), a1),
           Graded(TextQuestion("short_answer", 4, AllFour), a2), <<ApiFailure, ApiFailure>>) :
        criteria \in KeywordCriteria, a1 \in KeywordAnswers, a2 \in KeywordAnswers}

\* criteria that ask for ai_enhanced grading, for a method the grader does
\* not know, for none (key absent), and no criterion at all
OtherCriteria ==
    {<<>>} \cup
    {<<[Method(method, keywords) EXCEPT !.question_id = "q1"]>> :
        method \in {"ai_enhanced", "rubric", ""}, keywords \in {FourKeywords, <<>>}}

OtherProbes ==
    {Probe("scheme", criteria, Graded(question, a), Graded(question, a), <<r1, r2>>) :
        criteria \in OtherCriteria,
        question \in {TextQuestion("short_answer", 4, AllFour),
                      TextQuestion("multiple_choice", 2, Paris)},
        a \in {SunEnergy, Paris},
        r1 \in ApiOutcomes, r2 \in ApiOutcomes}

Probes == ComparatorProbes \cup ExactProbes \cup KeywordProbes \cup OtherProbes

InitMethods ==
    /\ gs = ServiceAfterInit(TRUE, FALSE, TRUE)
    /\ grade = IdleGrade
    /\ qg = NoKeyGenerator
    /\ gen = NoCallers
    /\ today = 0
    /\ probe \in Probes

\* _grade_multiple_choice applied to both answers
ProbeComparator ==
    /\ probe.kind = "comparator"
    /\ probe.out = <<>>
    /\ LET apply(g) == _grade_multiple_choice(g.question, g.student_answer,
                                              QuestionPoints(g.question))
       IN  probe' = [probe EXCEPT !.out = <<apply(probe.first), apply(probe.second)>>]
    /\ UNCHANGED <<gs, grade, qg, gen, today>>

\* _grade_individual_question_with_scheme applied to both answers
ProbeScheme ==
    /\ probe.kind = "scheme"
    /\ probe.out = <<>>
    /\ LET marking_scheme == [present |-> TRUE, total_points |-> JAbsent,
                              criteria |-> probe.criteria]
           apply(g) == _grade_individual_question_with_scheme(
                           g.question, g.student_answer, QuestionPoints(g.question),
                           marking_scheme, probe.rs)
       IN  probe' = [probe EXCEPT !.out = <<apply(probe.first), apply(probe.second)>>]
    /\ UNCHANGED <<gs, grade, qg, gen, today>>

NextMethods == ProbeComparator \/ ProbeScheme

SpecMethods == InitMethods /\ [][NextMethods]_vars

-----------------------------------------------------------------------------
(* Properties of the grading strategies                                    *)

ProbedScheme == probe.kind = "scheme" /\ probe.out # <<>>
ProbedCriterion(method) ==
    /\ ProbedScheme
    /\ probe.criteria # <<>>
    /\ probe.criteria[1].grading_method = method

\* what keyword_match grading returns for the first answer of the probe with
\* the probe's criterion, the external calls still to come being `rs`
KeywordGradeOfFirst(rs) ==
    _grade_with_keyword_match(probe.first.question, probe.first.student_answer,
                              QuestionPoints(probe.first.question), probe.criteria[1], rs)

\* a response that arrived and has no POINTS: line with a number on it
NoUsablePoints(response) ==
    /\ response.ok
    /\ \A i \in 1..Len(response.lines) :
           response.lines[i].tag = "POINTS" => response.lines[i].num = "bad"

\* C13: when a question is graded with method ai_enhanced and the external
\* call fails or its response has no usable POINTS: line, the returned grade
\* is the keyword_match grade under the same criterion.
C13_FailedAiGradedByKeywords ==
    (ProbedCriterion("ai_enhanced")
        /\ (~probe.rs[1].ok \/ NoUsablePoints(probe.rs[1])))
    => /\ probe.out[1].raised = KeywordGradeOfFirst(Tail(probe.rs)).raised
       /\ probe.out[1].grade = KeywordGradeOfFirst(Tail(probe.rs)).grade

\* the part of C13 that the code keeps: a failed call is answered by
\* keyword_match
C13_FailedCallGradedByKeywords ==
    (ProbedCriterion("ai_enhanced") /\ ~probe.rs[1].ok)
    => /\ probe.out[1].raised = KeywordGradeOfFirst(Tail(probe.rs)).raised
       /\ probe.out[1].grade = KeywordGradeOfFirst(Tail(probe.rs)).grade

\* what ai_enhanced grading returns for the first answer of the probe with
\* the probe's criterion
AiEnhancedGradeOfFirst ==
    _grade_with_ai_enhanced(probe.first.question, probe.first.student_answer,
                            QuestionPoints(probe.first.question), probe.criteria[1], probe.rs)

KnownMethods == {"exact_match", "keyword_match", "ai_enhanced"}

\* C14: a criterion whose grading_method is unknown, or not specified (key
\* absent, written ""), is graded as ai_enhanced grades it.
C14_UnknownOrAbsentMethodIsAiEnhanced ==
    (ProbedScheme /\ probe.criteria # <<>>
        /\ probe.criteria[1].grading_method \notin KnownMethods)
    => /\ probe.out[1].raised = AiEnhancedGradeOfFirst.raised
       /\ probe.out[1].grade = AiEnhancedGradeOfFirst.grade

\* the part of C14 that the code keeps: a method it does not know
C14_UnknownMethodIsAiEnhanced ==
    (ProbedScheme /\ probe.criteria # <<>>
        /\ probe.criteria[1].grading_method \notin KnownMethods \cup {""})
    => /\ probe.out[1].raised = AiEnhancedGradeOfFirst.raised
       /\ probe.out[1].grade = AiEnhancedGradeOfFirst.grade

\* the default criterion synthesized for the first question of the probe
DefaultCriterionOfFirst == _create_default_criteria(probe.first.question, 1)

\* what grading the first answer of the probe against that default
\* criterion returns
DefaultGradeOfFirst ==
    _grade_individual_question_with_scheme(
        probe.first.question, probe.first.student_answer,
        QuestionPoints(probe.first.question),
        [present |-> TRUE, total_points |-> JAbsent, criteria |-> <<DefaultCriterionOfFirst>>],
        probe.rs)

\* C15: a question whose identifier matches no criterion of the scheme is
\* not an error, and is graded against the default criterion synthesized
\* for its type.
C15_NoCriterionGradedByDefault ==
    (ProbedScheme /\ FindCriteria(probe.criteria, probe.first.question.id) = <<>>)
    => /\ ~probe.out[1].raised
       /\ probe.out[1].grade = DefaultGradeOfFirst.grade

\* the part of C15 that the code keeps: no criterion is not an error
C15_NoCriterionIsNoError ==
    (ProbedScheme /\ FindCriteria(probe.criteria, probe.first.question.id) = <<>>)
    => ~probe.out[1].raised

ProbedComparator == probe.kind = "comparator" /\ probe.out # <<>>

OptionLetters == {"A", "B", "C", "D"}

\* the text without a leading letter prefix written "A) ", "A. " or "(a)",
\* in either letter case
WithoutLetterPrefix(text) ==
    IF Len(text) >= 2 /\ UpperChar(text[1]) \in OptionLetters /\ text[2] \in {")", "."}
    THEN Strip(SubSeq(text, 3, Len(text)))
    ELSE IF Len(text) >= 3 /\ text[1] = "(" /\ UpperChar(text[2]) \in OptionLetters
            /\ text[3] = ")"
    THEN Strip(SubSeq(text, 4, Len(text)))
    ELSE text

\* the three rules under which the comparator is said to accept an answer
SaidCorrect(student_answer, correct_answer) ==
    LET student == Strip(student_answer)
        correct == Strip(correct_answer)
    IN  \/ Upper(student) = Upper(correct)
        \/ Upper(WithoutLetterPrefix(student)) = Upper(WithoutLetterPrefix(correct))
        \/ /\ student # <<>>
           /\ correct # <<>>
           /\ UpperChar(student[1]) = UpperChar(correct[1])

\* C16: the multiple-choice comparator awards full points exactly when the
\* answers are equal case-insensitively, or equal after a leading letter
\* prefix is stripped from both, or begin with the same character; and 0 in
\* every other case.
C16_ComparatorRules ==
    ProbedComparator
    => /\ ~probe.out[1].raised
       /\ probe.out[1].grade.points_awarded =
              IF SaidCorrect(probe.first.student_answer, probe.first.question.correct_answer)
              THEN probe.out[1].grade.points_possible * Den
              ELSE 0

\* the scenario of C16, which the code keeps: correct "Paris", answer
\* "Paris" gets full points and answer "London" gets 0
C16_ParisScenario ==
    (ProbedComparator /\ probe.first.question.correct_answer = Paris)
    => /\ probe.first.student_answer = Paris => probe.out[1].grade.points_awarded = 2 * Den
       /\ probe.first.student_answer = London => probe.out[1].grade.points_awarded = 0

ProbedExact == ProbedCriterion("exact_match")

\* trimmed, and uppercased unless the letter case counts
Normalized(text, case_sensitive) ==
    IF case_sensitive THEN Strip(text) ELSE Upper(Strip(text))

ExactAward(g, out) ==
    /\ ~out.raised
    /\ out.grade.grading_method = "exact_match"
    /\ out.grade.points_awarded =
           IF Normalized(g.student_answer, probe.criteria[1].case_sensitive)
                  = Normalized(g.question.correct_answer, probe.criteria[1].case_sensitive)
           THEN out.grade.points_possible * Den
           ELSE 0

SameUpToCase(s, t) == Upper(s) = Upper(t)

\* C17: exact_match grading awards full points if and only if the trimmed
\* student answer equals the trimmed correct answer, both uppercased unless
\* case_sensitive is set, and 0 otherwise; with case_sensitive false two
\* gradings whose answers and correct answers differ in letter case only are
\* awarded the same points.
C17_ExactMatch ==
    ProbedExact
    => /\ ExactAward(probe.first, probe.out[1])
       /\ ExactAward(probe.second, probe.out[2])
       /\ (~probe.criteria[1].case_sensitive
              /\ SameUpToCase(probe.first.student_answer, probe.second.student_answer)
              /\ SameUpToCase(probe.first.question.correct_answer,
                              probe.second.question.correct_answer))
          => probe.out[1].grade.points_awarded = probe.out[2].grade.points_awarded

\* "PARIS" against "paris"-cased variants: answer PARIS for correct Paris and
\* answer paris for correct PARIS, case_sensitive false, both awarded in full
C17_CaseVariantsGraded ==
    /\ ProbedExact
    /\ ~probe.criteria[1].case_sensitive
    /\ probe.first.student_answer = PARIS
    /\ probe.first.question.correct_answer = Paris
    /\ probe.second.student_answer = LowerParis
    /\ probe.second.question.correct_answer = PARIS
    /\ probe.out[1].grade.points_awarded = 2 * Den
    /\ probe.out[2].grade.points_awarded = 2 * Den

ProbedKeyword == ProbedCriterion("keyword_match") /\ probe.criteria[1].keywords # <<>>

\* m: the criterion keywords found, case-insensitively, as substrings of the answer
MatchCount(g) ==
    Cardinality({i \in 1..Len(probe.criteria[1].keywords) :
                    Contains(Lower(g.student_answer), Lower(probe.criteria[1].keywords[i]))})

\* twice the minimum: the one given, or the default; the default is
\* max(1, k/2) with the division either exact or rounded down
TwiceMinimum(exact_half) ==
    LET k == Len(probe.criteria[1].keywords)
    IN  IF probe.criteria[1].min_keywords.kind = "num"
        THEN 2 * probe.criteria[1].min_keywords.v
        ELSE IF exact_half THEN Max(2, k) ELSE 2 * Max(1, k \div 2)

\* the weight in halves: the one given, or the default 1.0
WeightHalves ==
    IF probe.criteria[1].keyword_weight.kind = "num"
    THEN probe.criteria[1].keyword_weight.v
    ELSE 2

\* points_possible when m >= k, otherwise min(points_possible,
\* (m/k) * points_possible * w) when m >= minK, otherwise 0; the awarded
\* points are in units of 1/Den and the weight in halves
KeywordAward(g, out, exact_half) ==
    LET k == Len(probe.criteria[1].keywords)
        m == MatchCount(g)
        full == out.grade.points_possible * Den
        scaled == m * out.grade.points_possible * WeightHalves * Den
    IN  /\ ~out.raised
        /\ out.grade.grading_method = "keyword_match"
        /\ IF m >= k THEN out.grade.points_awarded = full
           ELSE IF 2 * m >= TwiceMinimum(exact_half)
           THEN IF scaled >= full * 2 * k
                THEN out.grade.points_awarded = full
                ELSE out.grade.points_awarded * 2 * k = scaled
           ELSE out.grade.points_awarded = 0

\* C18 (as stated, the default minimum max(1, k/2) with k/2 the exact
\* half): keyword_match grading awards points_possible when m >= k,
\* otherwise min(points_possible, (m/k) * points_possible * w) when
\* m >= minK, otherwise 0.
C18_KeywordAwardExactHalf ==
    ProbedKeyword
    => /\ KeywordAward(probe.first, probe.out[1], TRUE)
       /\ KeywordAward(probe.second, probe.out[2], TRUE)

\* C18 (amended, the default minimum max(1, k/2) with k/2 rounded down):
\* keyword_match grading awards points_possible when m >= k, otherwise
\* min(points_possible, (m/k) * points_possible * w) when m >= minK,
\* otherwise 0.
C18_KeywordAward ==
    ProbedKeyword
    => /\ KeywordAward(probe.first, probe.out[1], FALSE)
       /\ KeywordAward(probe.second, probe.out[2], FALSE)

\* 4 keywords, minK 2, weight 1.0, points_possible 4, exactly 2 keywords
\* found: 2.0 awarded
C18_TwoOfFourGraded ==
    /\ ProbedKeyword
    /\ probe.criteria[1].keywords = FourKeywords
    /\ probe.criteria[1].min_keywords = JNum(2)
    /\ probe.criteria[1].keyword_weight = JNum(2)
    /\ probe.out[1].grade.points_possible = 4
    /\ probe.first.student_answer = SunEnergy
    /\ MatchCount(probe.first) = 2
    /\ probe.out[1].grade.points_awarded = 2 * Den

\* C19: for a fixed criterion and fixed points_possible, an answer matching
\* more keywords is never awarded fewer points by keyword_match grading than
\* an answer matching fewer keywords.
C19_MonotonicInMatches ==
    (ProbedKeyword /\ ~probe.out[1].raised /\ ~probe.out[2].raised
        /\ probe.out[1].grade.points_possible = probe.out[2].grade.points_possible
        /\ MatchCount(probe.first) <= MatchCount(probe.second))
    => probe.out[1].grade.points_awarded <= probe.out[2].grade.points_awarded

\* the part of C19 that the code keeps: a weight that is not negative
C19_MonotonicUnlessNegativeWeight ==
    (ProbedKeyword /\ ~probe.out[1].raised /\ ~probe.out[2].raised
        /\ WeightHalves >= 0
        /\ probe.out[1].grade.points_possible = probe.out[2].grade.points_possible
        /\ MatchCount(probe.first) <= MatchCount(probe.second))
    => probe.out[1].grade.points_awarded <= probe.out[2].grade.points_awarded

\* the criterion keywords that the answer does not contain
MissingKeywords(g) ==
    {probe.criteria[1].keywords[i] : i \in
        {j \in 1..Len(probe.criteria[1].keywords) :
            ~Contains(Lower(g.student_answer), Lower(probe.criteria[1].keywords[j]))}}

Named(feedback) == {feedback.missing[i] : i \in 1..Len(feedback.missing)}

\* C20: whenever keyword_match grading awards partial or zero points, the
\* feedback of the returned grade names the criterion keywords that are
\* missing from the student's answer.
C20_FeedbackNamesMissing ==
    (ProbedKeyword /\ ~probe.out[1].raised
        /\ probe.out[1].grade.points_awarded < probe.out[1].grade.points_possible * Den
        /\ MatchCount(probe.first) < Len(probe.criteria[1].keywords))
    => MissingKeywords(probe.first) \subseteq Named(probe.out[1].grade.feedback)

\* the part of C20 that the code keeps: a criterion without feedback_template
C20_FeedbackNamesMissingWithoutTemplate ==
    (ProbedKeyword /\ ~probe.out[1].raised
        /\ ~probe.criteria[1].has_template
        /\ probe.out[1].grade.points_awarded < probe.out[1].grade.points_possible * Den
        /\ MatchCount(probe.first) < Len(probe.criteria[1].keywords))
    => MissingKeywords(probe.first) \subseteq Named(probe.out[1].grade.feedback)

-----------------------------------------------------------------------------
(* Properties of the parsed feedback and of default synthesis              *)

\* the first answer of the probe was graded from a FEEDBACK: line of the
\* external model's response
FeedbackFromModel ==
    /\ ProbedScheme
    /\ ~probe.out[1].raised
    /\ probe.out[1].grade.feedback.kind = "ai"

\* C21: the feedback text parsed from a FEEDBACK: line of the external
\* model's response is never longer than the maximum feedback length.
C21_FeedbackWithinMaximum ==
    FeedbackFromModel => probe.out[1].grade.feedback.len <= max_feedback_length

\* the part of C21 that the code keeps: the first max_feedback_length
\* characters and an ellipsis of three
C21_FeedbackWithinMaximumAndEllipsis ==
    FeedbackFromModel => probe.out[1].grade.feedback.len <= max_feedback_length + 3

-----------------------------------------------------------------------------
(* Default criterion synthesis on its own: _create_default_criteria        *)
(* applied to one question.                                                *)

ThreeWords == <<" ">> \o Sun \o <<" ", " ">> \o Energy \o <<" ">> \o Plants \o <<" ">>

DefaultAnswers == {<<>>, Paris, SunEnergy, ThreeWords, ThreeOfFour, AllFour, PaddedParis}

DefaultQuestions ==
    {[Question(type, points, correct_answer, TRUE) EXCEPT !.id = id] :
        type \in {"multiple_choice", "short_answer", "essay", "true_false", ""},
        points \in {JAbsent, JNum(2), JNum(10)},
        correct_answer \in DefaultAnswers,
        id \in {"", "q7"}}

InitDefault ==
    /\ gs = ServiceAfterInit(FALSE, FALSE, TRUE)
    /\ grade = IdleGrade
    /\ qg = NoKeyGenerator
    /\ gen = NoCallers
    /\ today = 0
    /\ probe \in {[question |-> q, question_number |-> n, out |-> <<>>] :
                     q \in DefaultQuestions, n \in 1..MaxQuestions}

CreateDefaultCriteria ==
    /\ probe.out = <<>>
    /\ probe' = [probe EXCEPT
                    !.out = <<_create_default_criteria(probe.question, probe.question_number)>>]
    /\ UNCHANGED <<gs, grade, qg, gen, today>>

NextDefault == CreateDefaultCriteria

SpecDefault == InitDefault /\ [][NextDefault]_vars

\* the words of a text: the places where a run of non-blank characters begins
WordCount(text) ==
    Cardinality({i \in 1..Len(text) :
                    ~IsSpace(text[i]) /\ (i = 1 \/ IsSpace(text[i - 1]))})

\* C22: default synthesis chooses exact_match for a multiple_choice
\* question, exact_match for a short_answer question whose correct answer
\* has three words or fewer and keyword_match otherwise, and keyword_match
\* for every essay question.
C22_DefaultGradingMethod ==
    probe.out # <<>> =>
        LET method == probe.out[1].grading_method
            words == WordCount(probe.question.correct_answer)
        IN  /\ probe.question.type = "multiple_choice" => method = "exact_match"
            /\ probe.question.type = "short_answer" =>
                   method = IF words <= 3 THEN "exact_match" ELSE "keyword_match"
            /\ probe.question.type = "essay" => method = "keyword_match"

\* a short_answer question whose correct answer has exactly three words got
\* exact_match
C22_ThreeWordShortAnswer ==
    /\ probe.out # <<>>
    /\ probe.question.type = "short_answer"
    /\ WordCount(probe.question.correct_answer) = 3
    /\ probe.out[1].grading_method = "exact_match"

-----------------------------------------------------------------------------
(* Properties of create_marking_scheme with a supplied scheme              *)

\* caller c's call got a JSON object whose criteria are a list
SuppliedList(c) ==
    /\ SchemeCalled(c)
    /\ gen[c].response[1].ok
    /\ gen[c].response[1].json = "object"
    /\ gen[c].response[1].ai_scheme.criteria_kind = "list"

\* the position of the criterion supplied for question k (the first
\* structured entry that names its identifier or its number), or 0
SuppliedFor(c, k) ==
    LET entries == gen[c].response[1].ai_scheme.criteria
        matching == {i \in 1..Len(entries) :
                        /\ entries[i].is_dict
                        /\ \/ entries[i].question_id = IdOr(gen[c].questions[k], k)
                           \/ entries[i].question_number = JNum(k)}
    IN  IF matching = {} THEN 0 ELSE CHOOSE i \in matching : \A j \in matching : i <= j

\* a supplied criterion that has its required keys
WellFormed(entry) == entry.is_dict /\ entry.grading_method # ""

\* C23: when the supplied scheme contains a malformed criterion (an entry
\* that is no structured record, or one without its required keys), the
\* call still succeeds, the criterion of a question whose supplied
\* criterion is malformed or absent is the default-synthesized one, and the
\* supplied criterion of every other question is kept.
C23_MalformedCriterionReplacedAlone ==
    \A c \in Callers :
        SuppliedList(c) =>
            LET entries == gen[c].response[1].ai_scheme.criteria
                questions == gen[c].questions
                criteria == gen[c].result.marking_scheme.scheme.criteria
            IN  /\ gen[c].result.success
                /\ gen[c].result.marking_scheme.success
                /\ Len(criteria) = Len(questions)
                /\ \A k \in 1..Len(questions) :
                     criteria[k] =
                        IF SuppliedFor(c, k) # 0 /\ WellFormed(entries[SuppliedFor(c, k)])
                        THEN CleanedCriteria(questions[k], k, entries[SuppliedFor(c, k)])
                        ELSE _create_default_criteria(questions[k], k)

\* the part of C23 that the code keeps: the call succeeds, with one
\* criterion for each question
C23_MalformedSchemeStillSucceeds ==
    \A c \in Callers :
        SuppliedList(c) =>
            /\ gen[c].result.success
            /\ gen[c].result.marking_scheme.success
            /\ Len(gen[c].result.marking_scheme.scheme.criteria) = Len(gen[c].questions)

-----------------------------------------------------------------------------
(* The scenario of 2, 5 and 10 points with awards that are not whole       *)
(* points: the external model may give the essay 4 points and 1/Den.       *)

RoundingCases ==
    {<<Case(QTwo, Given(PARIS), <<>>), Case(QFive, a2, <<>>), Case(QTen, a3, <<>>)>> :
        a2 \in {Given(SunEnergy), Given(AllFour)}, a3 \in {Given(SunEnergy), Missing}}

RoundingSubmissions == SubmissionsOf(RoundingCases)

RoundingApiOutcomes ==
    {ApiFailure} \cup
    {ApiText(<<PointsLine("num", units), FeedbackLine(40)>>) :
        units \in {4 * Den, 4 * Den + 1, 5 * Den, 10 * Den}}

NextRounding ==
    \/ GradeBegin(RoundingSubmissions)
    \/ GradeQuestion(RoundingApiOutcomes)
    \/ GradeFinish
    \/ GradeReturn

SpecRounding == InitScenario /\ [][NextRounding]_vars

\* C29: in every successful grading result the letter grade is the
\* letter-grade mapping applied to the percentage the result reports (the
\* value rounded to one decimal, here in tenths).
C29_LetterOfReportedPercentage ==
    (grade.pc = "done" /\ grade.result.success)
    => grade.result.grade = _calculate_letter_grade(grade.result.percentage, 10)

\* the part of C29 that the code keeps: the letter is that of the
\* percentage before it is rounded
C29_LetterOfUnroundedPercentage ==
    (grade.pc = "done" /\ grade.result.success /\ grade.result.max_possible_score > 0)
    => grade.result.grade =
           _calculate_letter_grade(grade.result.total_score * 100,
                                   grade.result.max_possible_score * Den)

-----------------------------------------------------------------------------
(* Properties of the grading loop                                          *)

\* the grades so far are those of the first questions, in list order
GradesFollowQuestions(grades, questions) ==
    /\ Len(grades) <= Len(questions)
    /\ \A k \in 1..Len(grades) : grades[k].question_id = questions[k].id

\* C24: within one grading call the questions are graded one after another
\* in list order: while question i is at hand exactly the i - 1 earlier
\* questions have been graded, each grading step (with its external calls)
\* adds the grade of the question at hand and moves to the next, and
\* detailed_feedback of a successful result holds one entry per question in
\* question order.
C24_OneAfterAnother ==
    /\ [](/\ grade.pc = "loop" =>
                /\ Len(grade.question_grades) = grade.i - 1
                /\ Len(grade.steps) = grade.i - 1
                /\ GradesFollowQuestions(grade.question_grades, grade.questions)
          /\ (grade.pc = "done" /\ grade.result.success) =>
                /\ Len(grade.result.detailed_feedback) = Len(grade.questions)
                /\ GradesFollowQuestions(grade.result.detailed_feedback, grade.questions))
    /\ [][(grade.pc = "loop" /\ grade'.steps # grade.steps) =>
             /\ SubSeq(grade'.steps, 1, Len(grade.steps)) = grade.steps
             /\ Len(grade'.steps) = Len(grade.steps) + 1
             /\ \/ grade'.pc = "done" /\ ~grade'.result.success
                \/ /\ grade'.i = grade.i + 1
                   /\ grade'.question_grades[grade.i].question_id
                          = grade.questions[grade.i].id]_vars

\* two questions were graded, each with an external call, and the result is
\* a success
C24_TwoGradedWithCalls ==
    /\ grade.pc = "done" /\ grade.result.success
    /\ Len(grade.questions) = 2
    /\ Len(grade.steps) = 2
    /\ grade.steps[1].calls > 0
    /\ grade.steps[2].calls > 0

-----------------------------------------------------------------------------
(* The question generator with two callers on one event loop: a coroutine  *)
(* is suspended at the awaits of _call_gemini_api (asyncio.sleep under the *)
(* free tier) and the other may run in between.                            *)

InitConcurrent ==
    /\ gs = ServiceAfterInit(FALSE, FALSE, TRUE)
    /\ grade = IdleGrade
    /\ qg \in {GeneratorAfterInit(k, FALSE, TRUE, MaxDailyRequests, 0) : k \in BOOLEAN}
    /\ gen = [c \in Callers |-> IdleCall]
    /\ today = 0
    /\ probe = NoProbe

NextConcurrent ==
    \/ NextDay
    \/ \E c \in Callers :
        \/ GenerateBegin(c)
        \/ GenerateApiReturn(c, GenerateResponses)
        \/ SchemeBegin(c, ServiceQuestionLists)
        \/ SchemeApiReturn(c, ServiceSchemeResponses)
        \/ GetUsageStats(c)
        \/ GenReturn(c)

SpecConcurrent == InitConcurrent /\ [][NextConcurrent]_vars

FreeTier == qg.gemini_ready /\ qg.use_free_tier = "true"

\* C25: with the free tier enabled, every reachable state has
\* 0 <= daily_requests <= max_daily_requests, and no result reports a
\* negative requests_remaining, whatever the interleaving of the calls.
C25_CounterWithinLimit ==
    FreeTier =>
        /\ 0 <= qg.daily_requests
        /\ qg.daily_requests <= qg.max_daily_requests
        /\ \A c \in Callers :
             (gen[c].pc = "done" /\ gen[c].result.success
                 /\ gen[c].op \in {"generate_question_paper", "get_usage_stats"})
             => gen[c].result.requests_remaining >= 0

\* the part of C25 that the code keeps: the counter is never negative, and
\* it passes the limit by less than the number of callers
C25_CounterWithinLimitAndCallers ==
    FreeTier =>
        /\ 0 <= qg.daily_requests
        /\ qg.daily_requests < qg.max_daily_requests + Cardinality(Callers)

\* this step is caller c entering the operation
BeginsBy(c, op) == gen[c].pc = "idle" /\ gen'[c].pc # "idle" /\ gen'[c].op = op

\* C26: under the free tier with max_daily_requests > 0, a
\* generate_question_paper call that begins on the date of the last reset
\* with the counter at the limit returns "Daily free tier limit reached"
\* without calling the external model and without changing the counter;
\* the first generate_question_paper or get_usage_stats call after the
\* date has advanced resets the counter to 0, and that generation is
\* accepted.
C26_LimitAndReset ==
    [][\A c \in Callers :
         (FreeTier /\ qg.max_daily_requests > 0) =>
            /\ (/\ BeginsBy(c, "generate_question_paper")
                /\ today <= qg.last_reset
                /\ qg.daily_requests >= qg.max_daily_requests)
               => /\ gen'[c].pc = "done"
                  /\ ~gen'[c].result.success
                  /\ gen'[c].result.error = "Daily free tier limit reached"
                  /\ qg' = qg
            /\ (BeginsBy(c, "generate_question_paper") /\ today > qg.last_reset)
               => /\ qg'.daily_requests = 0
                  /\ qg'.last_reset = today
                  /\ gen'[c].pc = "generate_api"
            /\ (BeginsBy(c, "get_usage_stats") /\ today > qg.last_reset)
               => /\ qg'.daily_requests = 0
                  /\ qg'.last_reset = today
                  /\ gen'[c].result.daily_requests = 0
                  /\ gen'[c].result.requests_remaining = qg.max_daily_requests]_vars

\* after a reset on the next day the limit was reached again and a call
\* was refused
C26_RefusedAfterReset ==
    \E c \in Callers :
        /\ FreeTier
        /\ today > 0
        /\ qg.last_reset = today
        /\ qg.daily_requests >= qg.max_daily_requests
        /\ gen[c].pc = "done"
        /\ gen[c].op = "generate_question_paper"
        /\ gen[c].result.error = "Daily free tier limit reached"

\* this step takes caller c's generate_question_paper past the parsing of
\* the external model's answer (line 173)
CountedBy(c) ==
    /\ gen[c].op = "generate_question_paper"
    /\ gen[c].pc = "generate_api"
    /\ \/ gen'[c].pc = "scheme_api"
       \/ gen'[c].pc = "done" /\ gen'[c].result.success

\* C27: on a fixed date daily_requests changes only by +1, it does so
\* exactly in the step in which a generate_question_paper call that goes on
\* to return success has read the external model's answer, and every other
\* step (a call that returns a failure, create_marking_scheme,
\* get_usage_stats) leaves it unchanged.
C27_CounterFrame ==
    [][(today' = today /\ today <= qg.last_reset) =>
         /\ (qg'.daily_requests = qg.daily_requests + 1) <=> (\E c \in Callers : CountedBy(c))
         /\ (qg'.daily_requests # qg.daily_requests + 1) => qg'.daily_requests = qg.daily_requests
         /\ \A c \in Callers :
              /\ (BeginsBy(c, "create_marking_scheme") \/ BeginsBy(c, "get_usage_stats"))
                 => qg'.daily_requests = qg.daily_requests
              /\ (gen[c].pc # "done" /\ gen'[c].pc = "done" /\ ~gen'[c].result.success)
                 => qg'.daily_requests = qg.daily_requests
              /\ (gen[c].op = "generate_question_paper" /\ gen[c].pc = "scheme_api"
                     /\ gen'[c].pc = "done")
                 => gen'[c].result.success]_vars

\* a generate_question_paper call returned success with the counter at 1,
\* and another returned a failure
C27_SuccessAndFailureReturned ==
    \E c, d \in Callers :
        /\ gen[c].pc = "done" /\ gen[c].op = "generate_question_paper"
        /\ gen[c].result.success
        /\ qg.daily_requests = 1
        /\ gen[d].pc = "done" /\ gen[d].op = "generate_question_paper"
        /\ ~gen[d].result.success
        /\ gen[d].result.error = "Generation failed"

-----------------------------------------------------------------------------
(* Properties of the fallback chain                                        *)

\* the place of a strategy in the chain ai_enhanced -> keyword_match ->
\* open-ended AI grading -> local keyword fallback; the strategies before
\* the chain have place 0
ChainPlace(name) ==
    IF name = "ai_enhanced" THEN 1
    ELSE IF name = "keyword_match" THEN 2
    ELSE IF name = "open_ended" THEN 3
    ELSE IF name = "fallback" THEN 4
    ELSE 0

ForwardOnly(trace) ==
    \A i, j \in 1..Len(trace) : i < j => ChainPlace(trace[i]) < ChainPlace(trace[j])

\* question k of the call and its criterion have the types of the data
\* model: a correct_answer that is text, partial-credit numbers that are
\* numbers
WellTyped(k) ==
    LET question == grade.questions[k]
        found == FindCriteria(grade.marking_scheme.criteria, question.id)
    IN  /\ question.correct_is_text
        /\ found # <<>> =>
              /\ found[1].min_keywords.kind # "str"
              /\ found[1].keyword_weight.kind # "str"

\* C28: grading one answered question issues at most two external model
\* calls, whichever of them fail, the strategies it passes through follow
\* the chain ai_enhanced -> keyword_match -> open-ended AI grading -> local
\* keyword fallback forward only, none entered twice, and (for a question
\* and criterion of the data model's types) it ends with a QuestionGrade.
C28_ChainForwardAtMostTwoCalls ==
    \A k \in 1..Len(grade.steps) :
        /\ grade.steps[k].calls <= 2
        /\ ForwardOnly(grade.steps[k].trace)
        /\ WellTyped(k) => ~grade.steps[k].raised

\* a question went through the whole chain: both external calls failed and
\* the local fallback graded it
C28_WholeChainTaken ==
    \E k \in 1..Len(grade.steps) :
        /\ grade.steps[k].trace = <<"ai_enhanced", "keyword_match", "open_ended", "fallback">>
        /\ grade.steps[k].calls = 2
        /\ ~grade.steps[k].raised
        /\ Len(grade.question_grades) >= k

-----------------------------------------------------------------------------
(* Generation followed by grading: the result of generate_question_paper   *)
(* is handed to the grading service.                                       *)

\* What grade_submission_with_scheme reads from the dict it is given as
\* marking_scheme: whether it is non-empty, .get('total_points', 0) and,
\* in _grade_individual_question_with_scheme, .get('criteria', []).  A key
\* is a field of the record.
AsMarkingScheme(dict) ==
    [present      |-> IF "empty" \in DOMAIN dict THEN ~dict.empty ELSE TRUE,
     total_points |-> IF "total_points" \in DOMAIN dict THEN dict.total_points ELSE JAbsent,
     criteria     |-> IF "criteria" \in DOMAIN dict THEN dict.criteria ELSE <<>>]

\* a multiple_choice question, and one followed by a short_answer question
\* ("Sample Answer:" sets no correct_answer)
ComposeResponses ==
    GenerateResponses \cup
    {[ok |-> TRUE,
      parsed |-> <<ParsedQuestion(1, "multiple_choice", 2),
                   [ParsedQuestion(2, "short_answer", 5) EXCEPT !.correct_answer = <<>>]>>]}

\* every generated question answered
AnswersTo(questions) ==
    {[k \in 1..Len(questions) |-> [question_id |-> questions[k].id, answer |-> text]] :
        text \in {Paris, SunEnergy}}

\* the submissions made of caller c's result: its questions, with its
\* marking_scheme field as it is or with the scheme inside that field
GeneratedSubmissions(c) ==
    {[questions |-> gen[c].result.questions,
      student_answers |-> student_answers,
      marking_scheme |-> AsMarkingScheme(dict)] :
        student_answers \in AnswersTo(gen[c].result.questions),
        dict \in {gen[c].result.marking_scheme, gen[c].result.marking_scheme.scheme}}

GradeGenerated(c) ==
    /\ gen[c].pc = "done"
    /\ gen[c].op = "generate_question_paper"
    /\ gen[c].result.success
    /\ GradeBegin(GeneratedSubmissions(c))

InitCompose ==
    /\ gs = ServiceAfterInit(TRUE, FALSE, TRUE)
    /\ grade = IdleGrade
    /\ qg = GeneratorAfterInit(TRUE, FALSE, TRUE, MaxDailyRequests, 0)
    /\ gen = [NoCallers EXCEPT !["a"] = IdleCall]
    /\ today = 0
    /\ probe = NoProbe

NextCompose ==
    \/ GradeQuestion(ServiceApiOutcomes)
    \/ GradeFinish
    \/ GradeReturn
    \/ \E c \in Callers :
        \/ GenerateBegin(c)
        \/ GenerateApiReturn(c, ComposeResponses)
        \/ SchemeApiReturn(c, ServiceSchemeResponses)
        \/ GradeGenerated(c)
        \/ (grade.pc = "idle" /\ GenReturn(c))   \* the caller grades with the result it holds

SpecCompose == InitCompose /\ [][NextCompose]_vars

\* grade_submission_with_scheme has finished on caller c's generated
\* questions (at least one) with the given reading of a dict of c's result
GradedWith(c, given) ==
    /\ gen[c].pc = "done" /\ gen[c].op = "generate_question_paper" /\ gen[c].result.success
    /\ grade.pc = "done" /\ grade.op = "grade_submission_with_scheme"
    /\ grade.questions = gen[c].result.questions
    /\ grade.questions # <<>>
    /\ grade.marking_scheme = given

\* grading found the criterion of every question, and max_possible_score
\* is the total points of the generated scheme
SchemeApplied(c) ==
    /\ grade.result.success
    /\ \A k \in 1..Len(grade.questions) :
          FindCriteria(grade.marking_scheme.criteria, grade.questions[k].id) # <<>>
    /\ gen[c].result.marking_scheme.scheme.total_points.kind = "num"
    /\ grade.result.max_possible_score = gen[c].result.marking_scheme.scheme.total_points.v

\* C30: the marking_scheme field of a successful generate_question_paper
\* result, passed unchanged with the generated questions as marking_scheme
\* to grade_submission_with_scheme, makes grading find the criterion of
\* every question, and max_possible_score equals the scheme's total points.
C30_GeneratedSchemeGradesAsGiven ==
    \A c \in Callers :
        GradedWith(c, AsMarkingScheme(gen[c].result.marking_scheme)) => SchemeApplied(c)

\* the part of C30 that the code keeps: the scheme inside the field
\* (marking_scheme['scheme']) passed as marking_scheme
C30_InnerSchemeGrades ==
    \A c \in Callers :
        GradedWith(c, AsMarkingScheme(gen[c].result.marking_scheme.scheme)) => SchemeApplied(c)

\* the inner scheme of a two-question paper was passed and applied
C30_InnerSchemeApplied ==
    \E c \in Callers :
        /\ GradedWith(c, AsMarkingScheme(gen[c].result.marking_scheme.scheme))
        /\ Len(grade.questions) = 2
        /\ SchemeApplied(c)

====
